---- MODULE Spec2Model ----
(***************************************************************************)
(* Model of the omaha-client update-check state machine                    *)
(* (src/src/state_machine.rs): the scheduler loop `run`, the control       *)
(* channel, one attempt (`start_update_check` / `perform_update_check`),   *)
(* the request retry loop and the reboot gate.                             *)
(*                                                                         *)
(* Every collaborator call (policy engine, http client, installer, timer,  *)
(* metrics reporter, storage commit) and every event yielded to the        *)
(* consumer is appended, in program order, to `log`.                       *)
(***************************************************************************)
EXTENDS Integers, Sequences, FiniteSets, TLC

(***************************************************************************)
(* Bounds of the exploration                                               *)
(***************************************************************************)
MaxAttempts == 2      \* attempts driven by one run of the scheduler loop
MaxRequests == 1      \* StartUpdateCheck requests sent through the handles
MaxProgress == 2      \* progress ticks one perform_install delivers
MaxRebootPolls == 1   \* times reboot_allowed answers false in one attempt
MaxRand == 1000       \* largest sampled output of rand::random::<u64>()
MaxClock == 2         \* latest sampled reading of the wall clock

(***************************************************************************)
(* Program constants                                                       *)
(***************************************************************************)
max_omaha_request_attempts == 3
BackoffRangeMs == 1000
RebootWaitMs == 1800000
LimbBase == 2 ^ 16

(***************************************************************************)
(* u32 arithmetic.  A u32 is kept as two 16-bit limbs so that the real     *)
(* width 2^32 is modelled; `+= 1` is the wrapping add of a release build.  *)
(***************************************************************************)
U32(n) == [hi |-> n \div LimbBase, lo |-> n % LimbBase]

U32Max == [hi |-> LimbBase - 1, lo |-> LimbBase - 1]

U32Pred(c) ==
    IF c.lo = 0 THEN [hi |-> c.hi - 1, lo |-> LimbBase - 1]
    ELSE [hi |-> c.hi, lo |-> c.lo - 1]

\* c + 1 as a mathematical integer (the high limb is not reduced).
MathSucc(c) ==
    IF c.lo = LimbBase - 1 THEN [hi |-> c.hi + 1, lo |-> 0]
    ELSE [hi |-> c.hi, lo |-> c.lo + 1]

\* c += 1 on a u32: (c + 1) % 2^32.
U32Inc(c) == [hi |-> MathSucc(c).hi % LimbBase, lo |-> MathSucc(c).lo]

\* An i64 of storage, as limbs like a u32: the high limb takes what exceeds
\* 32 bits.
I64(n) == [hi |-> n \div LimbBase, lo |-> n % LimbBase]

\* c + 1 on an i64 (no stored count comes near 2^63).
I64Succ(c) == MathSucc(c)

(***************************************************************************)
(* Domains                                                                 *)
(***************************************************************************)
States == {"Idle", "CheckingForUpdates", "ErrorCheckingForUpdate",
           "NoUpdateAvailable", "InstallationDeferredByPolicy",
           "InstallingUpdate", "WaitingForReboot", "InstallationError"}

InstallSources == {"ScheduledTask", "OnDemand"}

\* CheckOptions::default()
DefaultCheckOptions == "ScheduledTask"

CheckDecisions == {"Ok", "OkUpdateDeferred", "TooSoon", "ThrottledByPolicy",
                   "DeniedByPolicy"}

UpdateDecisions == {"Ok", "DeferredByPolicy", "DeniedByPolicy"}

\* Outcomes of one do_omaha_request: a body, or an OmahaRequestError.
\* "HyperUser" is a hyper::Error whose is_user() is true.
OmahaRequestErrors == {"Json", "HttpBuilder", "Hyper", "HyperUser", "HttpStatus"}

\* Bodies a successful exchange can return: unparsable, parsable with no app
\* whose update-check status is Ok, parsable with such an app.
Bodies == {"invalid", "noupdate", "update"}

\* Sampled outputs of rand::random::<u64>().
RandVals == {0, BackoffRangeMs - 1, MaxRand}

\* Wall-clock times are counted in ticks of half a microsecond, so that the
\* conversion to the stored microseconds loses precision as the code's does.
TicksPerMicro == 2

\* Sampled readings of TimeSource::now(), as wall times in ticks.
ClockReadings == {1, MaxClock}

\* The ids install plans can have (InstallPlan::id()).
InstallPlanIds == {"plan_a", "plan_b"}

\* What do_omaha_request returns to report_omaha_event.
EventOutcomes == {"Ok", "Err"}

\* The ids of the apps in the app set.
AppIds == {"app_1", "app_2"}

\* Cohorts a response can assign; the apps start in "cohort_0".
ResponseCohorts == {"cohort_1", "cohort_2"}

\* The elapsed_days a response can carry in daystart; the apps start with
\* the user counting of day 0.
ResponseDays == {1, 2}

\* What the app set holds about an app besides its id.
AppState(cohort, user_counting) ==
    [cohort |-> cohort, user_counting |-> user_counting]

\* The app set the state machine is built with.
InitAppSet == [id \in AppIds |-> AppState("cohort_0", 0)]

\* No app: what there is of a response before a body has been received.
NoApps == [id \in {} |-> AppState("cohort_0", 0)]

\* The response that assigns every app the cohort and the day it has.
SameApps == [id \in AppIds |-> [cohort |-> "cohort_0", elapsed_days |-> 0]]

\* The apps of a response body, by id: each with its cohort, all with the
\* elapsed_days of the one daystart of the response.  A response names one
\* app of the set or all of them.
VariedApps ==
    UNION { UNION { [ids -> [cohort : ResponseCohorts, elapsed_days : {day}]] :
                    day \in ResponseDays } :
            ids \in {{"app_1"}, AppIds} }

\* RequestParams: the install source and whether configured proxies are used.
RequestParams(source, use_configured_proxies) ==
    [source |-> source, use_configured_proxies |-> use_configured_proxies]

\* The parameters of a scheduled check that uses the configured proxies.
DefaultRequestParams == RequestParams(DefaultCheckOptions, TRUE)

\* request_params before the policy has decided.
NoRequestParams == RequestParams("none", FALSE)

\* What a fresh storage gives the context at startup, and what a storage
\* written by an earlier run gives it.
NothingLoaded ==
    [last_update_time |-> <<>>, server_dictated_poll_interval |-> <<>>,
     consecutive_failed_update_checks |-> FALSE]

SomethingLoaded ==
    [last_update_time |-> <<1>>, server_dictated_poll_interval |-> <<"poll">>,
     consecutive_failed_update_checks |-> TRUE]

\* The environment of a run: the readings its wall clock can give, the
\* install plans the server's responses can lead to, and what becomes of the
\* event requests.  SteadyEnv has a clock that stands still, one plan and a
\* server that accepts every event; FreeEnv a clock that may also move
\* backwards and several plans; LossyEnv event requests that may fail.
\* `policy` is the policy engine: "stub" is StubPolicyEngine, whose time
\* source reads `policy_clock`; "any" is an engine free to decide anything,
\* whose positive decisions carry one of `params`.
\* `loaded` is what the context was loaded with at startup, `update_clock`
\* the readings of the time source when last_update_time is written,
\* `failed_attempts` the values consecutive_failed_update_attempts may have
\* when the model takes the run up.
SteadyEnv ==
    [clock |-> {1}, plans |-> {"plan_a"}, events |-> {"Ok"},
     responses |-> {SameApps}, policy |-> "any", policy_clock |-> {1},
     params |-> {DefaultRequestParams}, loaded |-> NothingLoaded,
     update_clock |-> {1}, failed_attempts |-> {U32(0)}]

FreeEnv ==
    [clock |-> ClockReadings, plans |-> InstallPlanIds, events |-> {"Ok"},
     responses |-> {SameApps}, policy |-> "any", policy_clock |-> {1},
     params |-> {DefaultRequestParams}, loaded |-> NothingLoaded,
     update_clock |-> {1}, failed_attempts |-> {U32(0)}]

LossyEnv ==
    [clock |-> {1}, plans |-> {"plan_a"}, events |-> EventOutcomes,
     responses |-> {SameApps}, policy |-> "any", policy_clock |-> {1},
     params |-> {DefaultRequestParams}, loaded |-> NothingLoaded,
     update_clock |-> {1}, failed_attempts |-> {U32(0)}]

\* An environment whose responses move the apps to other cohorts and days.
CohortEnv ==
    [clock |-> {1}, plans |-> {"plan_a"}, events |-> {"Ok"},
     responses |-> VariedApps, policy |-> "any", policy_clock |-> {1},
     params |-> {DefaultRequestParams}, loaded |-> NothingLoaded,
     update_clock |-> {1}, failed_attempts |-> {U32(0)}]

\* An environment whose policy engine is StubPolicyEngine, whose own time
\* source gives varying readings.
StubEnv ==
    [clock |-> {1}, plans |-> {"plan_a"}, events |-> {"Ok"},
     responses |-> {SameApps}, policy |-> "stub",
     policy_clock |-> ClockReadings, params |-> {},
     loaded |-> NothingLoaded,
     update_clock |-> {1}, failed_attempts |-> {U32(0)}]

\* A response that moves every app to another cohort and day.
MovedApps == [id \in AppIds |-> [cohort |-> "cohort_1", elapsed_days |-> 1]]

\* An environment whose context was loaded from a storage written earlier,
\* whose clock has moved on since, and whose responses move the apps; the
\* run is taken up fresh, or after 2^32 - 2 consecutive failed installs.
LoadedEnv ==
    [clock |-> {1}, plans |-> {"plan_a"}, events |-> {"Ok"},
     responses |-> {MovedApps}, policy |-> "any", policy_clock |-> {1},
     params |-> {DefaultRequestParams}, loaded |-> SomethingLoaded,
     update_clock |-> {MaxClock},
     failed_attempts |-> {U32(0), U32Pred(U32Max)}]

\* The counter values a run may start from: a fresh machine, and a machine
\* that has already failed 2^32 - 2 consecutive checks.
InitFailedChecks == {U32(0), U32Pred(U32Max)}

(***************************************************************************)
(* Log entries                                                             *)
(***************************************************************************)
Entry(k, e, v) == [k |-> k, e |-> e, v |-> v]

Event(e, v) == Entry("event", e, v)

StateChange(s) == Event("StateChange", s)

Metric(m, v) == Entry("metric", m, v)

WaitFor(ms) == Entry("wait", "For", ms)

WaitUntil(t) == Entry("wait", "Until", t)

\* One update-check exchange with the Omaha server (do_omaha_request in the
\* retry loop).
UpdateCheckRequest == Entry("request", "update_check", "")

\* A call of a collaborator; `v` is its answer where the program branches on
\* it and "" otherwise.
Call(f, v) == Entry("call", f, v)

NoResult == [kind |-> "None", v |-> "", d |-> ""]

OkResult(action) == [kind |-> "Ok", v |-> action, d |-> ""]

ErrResult(err, detail) == [kind |-> "Err", v |-> err, d |-> detail]

VARIABLES
    pc,                 \* position of the state machine task
    app_set_valid,      \* app_set.valid()
    state,              \* StateMachine.state
    context,            \* StateMachine.context.state (ProtocolState counters)
    options,            \* CheckOptions of the attempt being driven
    timing,             \* the CheckTiming computed for this iteration
    wait_for_done,      \* timer.wait_for(minimum_wait) has completed
    wait_until_done,    \* timer.wait_until(check_timing.time) has completed
    control,            \* mpsc channel of ControlRequest::StartUpdateCheck
    sent,               \* requests sent so far through the control handles
    handles_dropped,    \* every ControlHandle has been dropped
    replies,            \* responses the control handles have received
    omaha_request_attempt, \* loop counter of perform_update_check
    last_error,         \* the OmahaRequestError matched in this loop pass
    data,               \* body returned by the successful exchange
    result,             \* what perform_update_check returned
    install_result,     \* what perform_install returned ("none" while running)
    progress_chan,      \* the capacity-0 mpsc channel of progress ticks
    ticks,              \* ticks the installer has delivered in this install
    reboot_polls,       \* reboot_allowed answers `false` in this attempt
    attempts,           \* attempts started in this run
    trigger,            \* the select! arm that created the attempt
    prev_context,       \* context when the attempt was created
    storage,            \* the Storage behind storage_ref, by key
    env,                \* the environment of this run (never changes)
    app_set,            \* the apps of self.app_set, by id
    failures_since_success, \* attempts failed since the last Ok one (ghost)
    schedule,           \* self.context.schedule
    server_dictated_poll_interval, \* of self.context.state
    apps,               \* app_set.to_vec() taken by start_update_check
    response_apps,      \* the apps of the response body, by id
    request_params,     \* the RequestParams of the policy's decision
    install_plan,       \* install_plan.id() of the plan being installed
    update_start_time,  \* wall time read before the install
    update_first_seen_time, \* what record_update_first_seen_time returned
    update_finish_time, \* wall time read after a successful install
    log                 \* calls and events since the wait / the attempt began

vars == <<pc, app_set_valid, state, context, options, timing, wait_for_done,
          wait_until_done, control, sent, handles_dropped, replies,
          omaha_request_attempt, last_error, data, result, install_result, progress_chan, ticks,
          reboot_polls, attempts, trigger, prev_context, storage, env,
          app_set, failures_since_success, schedule,
          server_dictated_poll_interval, apps, response_apps, request_params,
          install_plan, update_start_time, update_first_seen_time,
          update_finish_time, log>>

sched_vars == <<timing, wait_for_done, wait_until_done>>

\* The locals of perform_update_check that hold the plan and the times.
install_vars == <<install_plan, update_start_time, update_first_seen_time,
                  update_finish_time>>

\* The snapshot of the app set, the apps of the parsed response and the
\* request parameters the policy decided on.
app_vars == <<apps, response_apps, request_params>>

attempt_vars == <<omaha_request_attempt, last_error, data, result,
                  install_result, progress_chan, ticks, reboot_polls,
                  install_vars, app_vars>>

\* Positions inside start_update_check: the inner select loop of `run` is
\* polling the update_check future.
AttemptPcs == {"update_check_allowed", "report_check_interval",
               "do_omaha_request", "backoff", "parse_omaha_response",
               "try_create_from", "update_can_start", "start_install",
               "perform_install", "bookkeeping", "persist_data",
               "reboot_allowed", "perform_reboot", "set_idle"}

NoTrigger == [arm |-> "none", wait_ready |-> FALSE]

\* An empty Storage.
EmptyStorage ==
    [consecutive_failed_update_checks |-> <<>>,
     last_check_time |-> <<>>,
     install_plan_id |-> <<>>,
     update_first_seen_time |-> <<>>]

\* What storage holds under consecutive_failed_update_checks as the run is
\* taken up: the failures so far as report_attempts_to_succeed has written
\* them when the environment keeps the stored count, nothing otherwise.
StoredFailedChecksAtStart(c) ==
    IF env.loaded.consecutive_failed_update_checks /\ c # U32(0)
    THEN <<c>>
    ELSE <<>>

\* The state after StateMachine::new, whatever the environment.
InitState ==
    /\ pc = "run"
    /\ app_set_valid \in BOOLEAN
    /\ state = "Idle"
    /\ context \in [consecutive_failed_update_checks : InitFailedChecks,
                    consecutive_failed_update_attempts : env.failed_attempts]
    /\ options = DefaultCheckOptions
    /\ timing = [minimum_wait |-> FALSE]
    /\ wait_for_done = FALSE
    /\ wait_until_done = FALSE
    /\ control = <<>>
    /\ sent = 0
    /\ handles_dropped = FALSE
    /\ replies = <<>>
    /\ omaha_request_attempt = 1
    /\ last_error = "none"
    /\ data = "none"
    /\ result = NoResult
    /\ install_result = "none"
    /\ progress_chan = <<>>
    /\ ticks = 0
    /\ reboot_polls = 0
    /\ attempts = 0
    /\ trigger = NoTrigger
    /\ prev_context = context
    /\ storage =
          [EmptyStorage EXCEPT !.consecutive_failed_update_checks =
              StoredFailedChecksAtStart(
                  context.consecutive_failed_update_checks)]
    /\ app_set = InitAppSet
    /\ failures_since_success = 0
    /\ schedule = [last_update_time |-> env.loaded.last_update_time,
                   next_update_time |-> <<>>]
    /\ server_dictated_poll_interval =
          env.loaded.server_dictated_poll_interval
    /\ apps = app_set
    /\ response_apps = NoApps
    /\ request_params = NoRequestParams
    /\ install_plan = "none"
    /\ update_start_time = 0
    /\ update_first_seen_time = 0
    /\ update_finish_time = 0
    /\ log = <<>>

Init == env = SteadyEnv /\ InitState

\* The same machine in an environment whose clock and plans vary.
InitClock == env = FreeEnv /\ InitState

\* The state after construction, where event requests may fail.
InitEvents == env = LossyEnv /\ InitState

\* The state after construction, where responses change the apps.
InitCohorts == env = CohortEnv /\ InitState

\* The state after construction from a storage written by an earlier run.
InitLoaded == env = LoadedEnv /\ InitState

\* The state after construction with StubPolicyEngine as the policy engine.
InitStub == env = StubEnv /\ InitState

(***************************************************************************)
(* Helpers                                                                 *)
(***************************************************************************)
None == <<>>

Some(x) == <<x>>

UnwrapOr(opt, dflt) == IF opt = None THEN dflt ELSE opt[1]

Last(seq) == seq[Len(seq)]

IsEvent(x) == x.k = "event"

IsStateChange(x) == x.k = "event" /\ x.e = "StateChange"

IsStateChangeTo(x, s) == IsStateChange(x) /\ x.v = s

IsMetric(x, m) == x.k = "metric" /\ x.e = m

IsWaitFor(x) == x.k = "wait" /\ x.e = "For"

IsRequest(x) == x.k = "request"

IsUpdateCheckRequest(x) == x.k = "request" /\ x.e = "update_check"

IsCall(x, f) == x.k = "call" /\ x.e = f

\* An Event of protocol::request, as passed to report_omaha_event.
OmahaEvent(type, res, code) ==
    [event_type |-> type, event_result |-> res, errorcode |-> code]

\* report_omaha_event: one call of do_omaha_request carrying `event` for
\* every app; `outcome` is what the call returns, and an error is logged as
\* a warning and has no other effect.
ReportOmahaEvent(event, outcome) ==
    Entry("request", "event", [event |-> event, outcome |-> outcome])

\* report_error: set_state(InstallationError), then the error event.
ReportError(errorcode, outcome) ==
    << StateChange("InstallationError"),
       ReportOmahaEvent(OmahaEvent("UpdateComplete", "default", errorcode),
                        outcome) >>

\* report_success_event
ReportSuccessEvent(type, outcome) ==
    ReportOmahaEvent(OmahaEvent(type, "Success", "none"), outcome)

\* checked_to_micros_since_epoch / checked_system_time_to_micros_from_epoch:
\* the wall time as whole microseconds since the epoch.
checked_to_micros_since_epoch(t) == Some(t \div TicksPerMicro)

micros_from_epoch_to_system_time(m) == m * TicksPerMicro

\* SystemTime::duration_since and wall_duration_since: Ok(duration) when
\* `earlier` is not after `t`, Err otherwise.
DurationSince(t, earlier) == IF t >= earlier THEN Some(t - earlier) ELSE None

\* The interval metric reported whenever a last check time is stored.
CheckIntervalMetric_IgnoreFuture(st, now) ==
    IF st.last_check_time = None THEN << >>
    ELSE << Metric("UpdateCheckInterval", "duration") >>

\* report_check_interval: the metric it reports for the stored last check
\* time and the reading `now`.
CheckIntervalMetric(st, now) ==
    IF st.last_check_time = None THEN << >>
    ELSE IF DurationSince(now, micros_from_epoch_to_system_time(
                                   st.last_check_time[1])) = None
         THEN << >>
         ELSE << Metric("UpdateCheckInterval", "duration") >>

\* record_update_first_seen_time that leaves the commit of a new plan's id
\* and time to the end of the attempt.
record_update_first_seen_time_CommitAtEnd(st, id, now) ==
    IF st.install_plan_id = Some(id)
    THEN [storage |-> st,
          commit |-> FALSE,
          time |-> IF st.update_first_seen_time = None THEN now
                   ELSE micros_from_epoch_to_system_time(
                            st.update_first_seen_time[1])]
    ELSE [storage |-> [st EXCEPT !.install_plan_id = Some(id),
                                 !.update_first_seen_time =
                                     checked_to_micros_since_epoch(now)],
          commit |-> FALSE,
          time |-> now]

\* record_update_first_seen_time that overwrites the stored time on every
\* call.
record_update_first_seen_time_AlwaysNow(st, id, now) ==
    [storage |-> [st EXCEPT !.install_plan_id = Some(id),
                            !.update_first_seen_time =
                                checked_to_micros_since_epoch(now)],
     commit |-> TRUE,
     time |-> now]

\* record_update_first_seen_time(install_plan_id, now) over a Storage whose
\* writes succeed: the storage it leaves, whether it commits, and the time
\* it returns.
record_update_first_seen_time(st, id, now) ==
    IF st.install_plan_id = Some(id)
    THEN [storage |-> st,
          commit |-> FALSE,
          time |-> IF st.update_first_seen_time = None THEN now
                   ELSE micros_from_epoch_to_system_time(
                            st.update_first_seen_time[1])]
    ELSE [storage |-> [st EXCEPT !.install_plan_id = Some(id),
                                 !.update_first_seen_time =
                                     checked_to_micros_since_epoch(now)],
          commit |-> TRUE,
          time |-> now]

\* randomize without the centring of the range.
randomize_Uncentred(n, range, r) == n + (r % range)

\* fn randomize(n, range) with `r` the value rand::random::<u64>() returned.
randomize(n, range, r) == (n - (range \div 2)) + (r % range)

\* 1 << (omaha_request_attempt - 1), in seconds, times 1000.
BackoffBaseMs(attempt) == (2 ^ (attempt - 1)) * 1000

\* The retry test with `>` for `>=`.
ShouldRetry_OffByOne(err, attempt) ==
    CASE err \in {"Json", "HttpBuilder"} -> FALSE
      [] err \in {"Hyper", "HyperUser"} ->
            ~(attempt > max_omaha_request_attempts \/ err = "HyperUser")
      [] err = "HttpStatus" -> ~(attempt > max_omaha_request_attempts)

\* The retry test without `|| e.is_user()`.
ShouldRetry_IgnoreIsUser(err, attempt) ==
    CASE err \in {"Json", "HttpBuilder"} -> FALSE
      [] err \in {"Hyper", "HyperUser", "HttpStatus"} ->
            ~(attempt >= max_omaha_request_attempts)

\* The match arms of the retry loop that fall through to the backoff.
ShouldRetry(err, attempt) ==
    CASE err \in {"Json", "HttpBuilder"} -> FALSE
      [] err \in {"Hyper", "HyperUser"} ->
            ~(attempt >= max_omaha_request_attempts \/ err = "HyperUser")
      [] err = "HttpStatus" -> ~(attempt >= max_omaha_request_attempts)

\* The classification with HttpBuilder in the Network arm.
FailureReason_BuilderAsNetwork(res) ==
    CASE res.v \in {"ResponseParser", "InstallPlan"} -> "Omaha"
      [] res.v = "Policy" -> "Internal"
      [] res.v = "OmahaRequest" /\ res.d = "Json" -> "Internal"
      [] res.v = "OmahaRequest" /\
         res.d \in {"HttpBuilder", "Hyper", "HyperUser", "HttpStatus"} -> "Network"

\* The UpdateCheckFailureReason start_update_check derives from the error.
FailureReason(res) ==
    CASE res.v \in {"ResponseParser", "InstallPlan"} -> "Omaha"
      [] res.v = "Policy" -> "Internal"
      [] res.v = "OmahaRequest" /\ res.d \in {"Json", "HttpBuilder"} -> "Internal"
      [] res.v = "OmahaRequest" /\ res.d \in {"Hyper", "HyperUser", "HttpStatus"} ->
            "Network"

(***************************************************************************)
(* The scheduler loop: StateMachine::run                                   *)
(***************************************************************************)
\* Entry of run without the validity check of the app set.
Run_IgnoresValidity ==
    /\ pc = "run"
    /\ pc' = "loop"
    /\ UNCHANGED <<control, replies>>
    /\ UNCHANGED <<app_set_valid, app_set, failures_since_success, schedule,
                   server_dictated_poll_interval, env, state, context, options,
                   sched_vars, sent, handles_dropped, attempt_vars, attempts,
                   trigger, prev_context, storage, log>>

\* Entry of run: the validity check of the app set.  When run returns, the
\* receiver and every queued responder are dropped, so the waiting senders
\* observe StateMachineGone.
Run ==
    /\ pc = "run"
    /\ IF app_set_valid
       THEN /\ pc' = "loop"
            /\ UNCHANGED <<control, replies>>
       ELSE /\ pc' = "exited"
            /\ replies' = replies \o [i \in 1..Len(control) |-> "StateMachineGone"]
            /\ control' = <<>>
    /\ UNCHANGED <<app_set_valid, app_set, failures_since_success, schedule,
                   server_dictated_poll_interval, env, state, context, options,
                   sched_vars, sent, handles_dropped, attempt_vars, attempts,
                   trigger, prev_context, storage, log>>

\* PolicyData::builder().use_timesource(&time_source).build()
PolicyData(now) == [current_time |-> now]

\* StubPolicy::compute_next_update_time
StubPolicy_compute_next_update_time(policy_data) ==
    [time |-> policy_data.current_time, minimum_wait |-> None]

\* update_check_allowed that always names the source of a scheduled check.
StubPolicy_update_check_allowed_DefaultSource(check_options) ==
    [decision |-> "Ok", params |-> RequestParams(DefaultCheckOptions, TRUE)]

\* StubPolicy::update_check_allowed
StubPolicy_update_check_allowed(check_options) ==
    [decision |-> "Ok", params |-> RequestParams(check_options, TRUE)]

\* StubPolicy::update_can_start
StubPolicy_update_can_start == "Ok"

\* The CheckTimings compute_next_update_time can return when the times it
\* can name are `times`: a time and, optionally, a minimum wait (a duration,
\* of as many ticks as one of the times).
CheckTimings(times) ==
    [time : times, minimum_wait : {None} \cup {Some(d) : d \in times}]

\* policy_engine.compute_next_update_time: what the engine of this run can
\* return when its time source reads `now`.
compute_next_update_time(now) ==
    IF env.policy = "stub"
    THEN {StubPolicy_compute_next_update_time(PolicyData(now))}
    ELSE CheckTimings(env.clock)

\* policy_engine.update_check_allowed: the decisions the engine of this run
\* can return for the options of the check.
update_check_allowed(check_options) ==
    IF env.policy = "stub"
    THEN {StubPolicy_update_check_allowed(check_options)}
    ELSE [decision : {"Ok", "OkUpdateDeferred"}, params : env.params]
         \cup [decision : CheckDecisions \ {"Ok", "OkUpdateDeferred"},
               params : {NoRequestParams}]

\* policy_engine.update_can_start
update_can_start ==
    IF env.policy = "stub" THEN {StubPolicy_update_can_start}
    ELSE UpdateDecisions

\* The reading of the time source that StubPolicyEngine puts in PolicyData.
PolicyDataLog(now) ==
    IF env.policy = "stub" THEN << Call("use_timesource", now) >> ELSE << >>

\* update_next_update_time and the creation of wait_to_next_check.
UpdateNextUpdateTime ==
    /\ pc = "loop"
    /\ attempts < MaxAttempts
    /\ \E now \in env.policy_clock :
       \E check_timing \in compute_next_update_time(now) :
        /\ timing' = [minimum_wait |-> check_timing.minimum_wait # None]
        /\ log' = PolicyDataLog(now)
                  \o << Call("compute_next_update_time", check_timing),
                     Event("ScheduleChange", "next_update_time") >>
                  \o (IF check_timing.minimum_wait # None
                      THEN << WaitFor(check_timing.minimum_wait[1]) >>
                      ELSE << >>)
                  \o << WaitUntil(check_timing.time) >>
        /\ schedule' = [schedule EXCEPT
                          !.next_update_time = Some(check_timing.time)]
    /\ wait_for_done' = FALSE
    /\ wait_until_done' = FALSE
    /\ pc' = "select"
    /\ UNCHANGED <<app_set_valid, app_set, failures_since_success,
                   server_dictated_poll_interval, env, state, context, options,
                   control, sent, handles_dropped, replies, attempt_vars,
                   attempts, trigger, prev_context, storage>>

\* The timer completes wait_for(minimum_wait).
WaitForCompletes ==
    /\ pc = "select"
    /\ timing.minimum_wait
    /\ ~wait_for_done
    /\ wait_for_done' = TRUE
    /\ UNCHANGED <<pc, app_set_valid, app_set, failures_since_success,
                   schedule, server_dictated_poll_interval, env, state,
                   context, options, timing, wait_until_done, control, sent,
                   handles_dropped, replies, attempt_vars, attempts, trigger,
                   prev_context, storage, log>>

\* The timer completes wait_until(check_timing.time).
WaitUntilCompletes ==
    /\ pc = "select"
    /\ ~wait_until_done
    /\ wait_until_done' = TRUE
    /\ UNCHANGED <<pc, app_set_valid, app_set, failures_since_success,
                   schedule, server_dictated_poll_interval, env, state,
                   context, options, timing, wait_for_done, control, sent,
                   handles_dropped, replies, attempt_vars, attempts, trigger,
                   prev_context, storage, log>>

\* wait_to_next_check taken to be ready as soon as one timer has completed.
WaitToNextCheckReady_EitherTimer ==
    IF timing.minimum_wait THEN wait_for_done \/ wait_until_done
    ELSE wait_until_done

\* wait_to_next_check is ready: the join of both timers when there is a
\* minimum wait, wait_until alone otherwise.
WaitToNextCheckReady ==
    IF timing.minimum_wait THEN wait_for_done /\ wait_until_done
    ELSE wait_until_done

\* The creation of an attempt that keeps the snapshot of the app set taken
\* for the attempt before.
CreateUpdateCheck_StaleSnapshot(opts, arm) ==
    /\ options' = opts
    /\ trigger' = [arm |-> arm, wait_ready |-> WaitToNextCheckReady]
    /\ timing' = [minimum_wait |-> FALSE]
    /\ wait_for_done' = FALSE
    /\ wait_until_done' = FALSE
    /\ log' = << >>
    /\ prev_context' = context
    /\ attempts' = attempts + 1
    /\ omaha_request_attempt' = 1
    /\ last_error' = "none"
    /\ data' = "none"
    /\ result' = NoResult
    /\ install_result' = "none"
    /\ progress_chan' = << >>
    /\ ticks' = 0
    /\ reboot_polls' = 0
    /\ apps' = apps
    /\ response_apps' = NoApps
    /\ request_params' = NoRequestParams
    /\ install_plan' = "none"
    /\ update_start_time' = 0
    /\ update_first_seen_time' = 0
    /\ update_finish_time' = 0
    /\ pc' = "update_check_allowed"

\* self.start_update_check(options, &mut co): the future is created and its
\* locals are fresh; wait_to_next_check is not polled again.
CreateUpdateCheck(opts, arm) ==
    /\ options' = opts
    /\ trigger' = [arm |-> arm, wait_ready |-> WaitToNextCheckReady]
    /\ timing' = [minimum_wait |-> FALSE]
    /\ wait_for_done' = FALSE
    /\ wait_until_done' = FALSE
    /\ log' = << >>
    /\ prev_context' = context
    /\ attempts' = attempts + 1
    /\ omaha_request_attempt' = 1
    /\ last_error' = "none"
    /\ data' = "none"
    /\ result' = NoResult
    /\ install_result' = "none"
    /\ progress_chan' = << >>
    /\ ticks' = 0
    /\ reboot_polls' = 0
    /\ apps' = app_set
    /\ response_apps' = NoApps
    /\ request_params' = NoRequestParams
    /\ install_plan' = "none"
    /\ update_start_time' = 0
    /\ update_first_seen_time' = 0
    /\ update_finish_time' = 0
    /\ pc' = "update_check_allowed"

\* The timer arm of the select! that also takes a pending request.
SelectTimer_AlsoDequeues ==
    /\ pc = "select"
    /\ WaitToNextCheckReady
    /\ CreateUpdateCheck(DefaultCheckOptions, "timer")
    /\ IF control # << >>
       THEN /\ replies' = Append(replies, "Started")
            /\ control' = Tail(control)
       ELSE UNCHANGED <<control, replies>>
    /\ UNCHANGED <<app_set_valid, app_set, failures_since_success, schedule,
                   server_dictated_poll_interval, env, state, context, sent,
                   handles_dropped, storage>>

\* select!: `() = wait_to_next_check => CheckOptions::default()`.
SelectTimer ==
    /\ pc = "select"
    /\ WaitToNextCheckReady
    /\ CreateUpdateCheck(DefaultCheckOptions, "timer")
    /\ UNCHANGED <<app_set_valid, app_set, failures_since_success, schedule,
                   server_dictated_poll_interval, env, state, context, control,
                   sent, handles_dropped, replies, storage>>

\* The request arm of the select! with the request's options dropped.
SelectControl_DefaultOptions ==
    /\ pc = "select"
    /\ control # << >>
    /\ replies' = Append(replies, "Started")
    /\ CreateUpdateCheck(DefaultCheckOptions, "request")
    /\ control' = Tail(control)
    /\ UNCHANGED <<app_set_valid, app_set, failures_since_success, schedule,
                   server_dictated_poll_interval, env, state, context, sent,
                   handles_dropped, storage>>

\* The request arm of the select! completing on a closed channel: it starts
\* an attempt with the default options.
SelectControl_ClosedChannelStarts ==
    /\ pc = "select"
    /\ control # << >> \/ handles_dropped
    /\ IF control # << >>
       THEN /\ replies' = Append(replies, "Started")
            /\ CreateUpdateCheck(Head(control), "request")
            /\ control' = Tail(control)
       ELSE /\ CreateUpdateCheck(DefaultCheckOptions, "request")
            /\ UNCHANGED <<control, replies>>
    /\ UNCHANGED <<app_set_valid, app_set, failures_since_success, schedule,
                   server_dictated_poll_interval, env, state, context, sent,
                   handles_dropped, storage>>

\* select!: a StartUpdateCheck request arrives while waiting; the responder
\* is sent Started and the request's options drive the attempt.
SelectControl ==
    /\ pc = "select"
    /\ control # << >>
    /\ replies' = Append(replies, "Started")
    /\ CreateUpdateCheck(Head(control), "request")
    /\ control' = Tail(control)
    /\ UNCHANGED <<app_set_valid, app_set, failures_since_success, schedule,
                   server_dictated_poll_interval, env, state, context, sent,
                   handles_dropped, storage>>

\* The inner select arm whose request cuts the reboot wait short.
ControlDuringCheck_EndsRebootWait ==
    /\ pc \in AttemptPcs
    /\ control # << >>
    /\ replies' = Append(replies, "AlreadyRunning")
    /\ control' = Tail(control)
    /\ pc' = IF pc = "reboot_allowed" THEN "perform_reboot" ELSE pc
    /\ UNCHANGED <<app_set_valid, app_set, failures_since_success, schedule,
                   server_dictated_poll_interval, env, state, context, options,
                   sched_vars, sent, handles_dropped, attempt_vars, attempts,
                   trigger, prev_context, storage, log>>

\* The inner select arm answering like the outer one.
ControlDuringCheck_Started ==
    /\ pc \in AttemptPcs
    /\ control # << >>
    /\ replies' = Append(replies, "Started")
    /\ options' = Head(control)
    /\ control' = Tail(control)
    /\ UNCHANGED <<pc, app_set_valid, app_set, failures_since_success,
                   schedule, server_dictated_poll_interval, env, state,
                   context, sched_vars, sent, handles_dropped, attempt_vars,
                   attempts, trigger, prev_context, storage, log>>

\* Inner select loop: a StartUpdateCheck request arrives during the attempt.
ControlDuringCheck ==
    /\ pc \in AttemptPcs
    /\ control # << >>
    /\ replies' = Append(replies, "AlreadyRunning")
    /\ control' = Tail(control)
    /\ UNCHANGED <<pc, app_set_valid, app_set, failures_since_success,
                   schedule, server_dictated_poll_interval, env, state,
                   context, options, sched_vars, sent, handles_dropped,
                   attempt_vars, attempts, trigger, prev_context, storage,
                   log>>

\* ControlHandle::start_update_check: the request is sent on the channel;
\* when the state machine has exited the send fails with StateMachineGone.
SendStartUpdateCheck ==
    /\ ~handles_dropped
    /\ sent < MaxRequests
    /\ sent' = sent + 1
    /\ \E opts \in InstallSources :
        IF pc = "exited"
        THEN /\ replies' = Append(replies, "StateMachineGone")
             /\ UNCHANGED control
        ELSE /\ control' = Append(control, opts)
             /\ UNCHANGED replies
    /\ UNCHANGED handles_dropped
    /\ UNCHANGED <<pc, app_set_valid, app_set, failures_since_success,
                   schedule, server_dictated_poll_interval, env, state,
                   context, options, sched_vars, attempt_vars, attempts,
                   trigger, prev_context, storage, log>>

(***************************************************************************)
(* One attempt: perform_update_check                                       *)
(***************************************************************************)
\* What no step of an attempt changes.
env_vars == <<app_set_valid, env, options, timing, wait_for_done, wait_until_done,
              control, sent, handles_dropped, replies, attempts,
              prev_context>>

\* The policy gate where ThrottledByPolicy lets the check go ahead.
UpdateCheckAllowed_ThrottledProceeds ==
    /\ pc = "update_check_allowed"
    /\ \E check_decision \in update_check_allowed(options) :
        LET decision == check_decision.decision IN
        IF decision \in {"Ok", "OkUpdateDeferred"}
        THEN /\ state' = "CheckingForUpdates"
             /\ request_params' = check_decision.params
             /\ log' = log \o << Call("update_check_allowed", "positive"),
                                 StateChange("CheckingForUpdates") >>
             /\ pc' = "report_check_interval"
             /\ UNCHANGED result
        ELSE IF decision = "ThrottledByPolicy"
        THEN /\ state' = "CheckingForUpdates"
             /\ request_params' = check_decision.params
             /\ log' = log \o << Call("update_check_allowed", decision),
                                 StateChange("CheckingForUpdates") >>
             /\ pc' = "report_check_interval"
             /\ UNCHANGED result
        ELSE /\ log' = Append(log, Call("update_check_allowed", decision))
             /\ result' = ErrResult("Policy", decision)
             /\ pc' = "bookkeeping"
             /\ UNCHANGED <<state, request_params>>
    /\ trigger' = NoTrigger
    /\ UNCHANGED <<env_vars, app_set, failures_since_success, schedule,
                   server_dictated_poll_interval, context, storage,
                   omaha_request_attempt, last_error, data, install_result,
                   progress_chan, ticks, reboot_polls, install_vars, apps,
                   response_apps>>

\* The policy gate: update_check_allowed and, for a positive decision,
\* set_state(CheckingForUpdates).  The record of the select! arm is dropped
\* here: perform_update_check never sees which arm created it.
UpdateCheckAllowed ==
    /\ pc = "update_check_allowed"
    /\ \E check_decision \in update_check_allowed(options) :
        LET decision == check_decision.decision IN
        IF decision \in {"Ok", "OkUpdateDeferred"}
        THEN /\ state' = "CheckingForUpdates"
             /\ request_params' = check_decision.params
             /\ log' = log \o << Call("update_check_allowed", "positive"),
                                 StateChange("CheckingForUpdates") >>
             /\ pc' = "report_check_interval"
             /\ UNCHANGED result
        ELSE /\ log' = Append(log, Call("update_check_allowed", decision))
             /\ result' = ErrResult("Policy", decision)
             /\ pc' = "bookkeeping"
             /\ UNCHANGED <<state, request_params>>
    /\ trigger' = NoTrigger
    /\ UNCHANGED <<env_vars, app_set, failures_since_success, schedule,
                   server_dictated_poll_interval, context, storage,
                   omaha_request_attempt, last_error, data, install_result,
                   progress_chan, ticks, reboot_polls, install_vars, apps,
                   response_apps>>

\* report_check_interval, then the construction of the request and the
\* initialisation of the retry loop.  UpdateCheckInterval is reported only
\* when a stored last_check_time exists and is not later than now; the new
\* last_check_time is written and committed.
ReportCheckInterval ==
    /\ pc = "report_check_interval"
    /\ \E now \in env.clock :
        /\ log' = log \o CheckIntervalMetric(storage, now)
                      \o << Entry("storage", "commit", "last_check_time") >>
        /\ storage' = [storage EXCEPT !.last_check_time =
                                          checked_to_micros_since_epoch(now)]
    /\ omaha_request_attempt' = 1
    /\ pc' = "do_omaha_request"
    /\ UNCHANGED <<env_vars, app_set, failures_since_success, schedule,
                   server_dictated_poll_interval, trigger, state, context,
                   last_error, data, result, install_result, progress_chan,
                   ticks, reboot_polls, install_vars, app_vars>>

\* One pass of the retry loop up to the backoff: do_omaha_request and the
\* match on its result.
DoOmahaRequest ==
    /\ pc = "do_omaha_request"
    /\ \E outcome \in Bodies \cup OmahaRequestErrors :
        IF outcome \in Bodies
        THEN /\ data' = outcome
             /\ IF outcome = "invalid"
                THEN response_apps' = NoApps
                ELSE response_apps' \in env.responses
             /\ last_error' = "none"
             /\ log' = log \o << UpdateCheckRequest,
                                 Metric("UpdateCheckResponseTime", "elapsed"),
                                 Metric("UpdateCheckRetries",
                                        omaha_request_attempt) >>
             /\ pc' = "parse_omaha_response"
             /\ UNCHANGED <<state, result>>
        ELSE IF ShouldRetry(outcome, omaha_request_attempt)
        THEN /\ last_error' = outcome
             /\ log' = Append(log, UpdateCheckRequest)
             /\ pc' = "backoff"
             /\ UNCHANGED <<state, result, data, response_apps>>
        ELSE /\ last_error' = outcome
             /\ state' = "ErrorCheckingForUpdate"
             /\ log' = log \o << UpdateCheckRequest,
                                 StateChange("ErrorCheckingForUpdate") >>
             /\ result' = ErrResult("OmahaRequest", outcome)
             /\ pc' = "bookkeeping"
             /\ UNCHANGED <<data, response_apps>>
    /\ UNCHANGED <<env_vars, app_set, failures_since_success, schedule,
                   server_dictated_poll_interval, trigger, context, storage,
                   omaha_request_attempt, install_result, progress_chan, ticks,
                   reboot_polls, install_vars, apps, request_params>>

\* The randomized exponential backoff before the next exchange.
Backoff ==
    /\ pc = "backoff"
    /\ \E r \in RandVals :
        log' = Append(log, WaitFor(randomize(BackoffBaseMs(omaha_request_attempt),
                                             BackoffRangeMs, r)))
    /\ omaha_request_attempt' = omaha_request_attempt + 1
    /\ last_error' = "none"
    /\ pc' = "do_omaha_request"
    /\ UNCHANGED <<env_vars, app_set, failures_since_success, schedule,
                   server_dictated_poll_interval, trigger, state, context,
                   storage, data, result, install_result, progress_chan, ticks,
                   reboot_polls, install_vars, app_vars>>

\* parse_omaha_response where a response without any update is taken for
\* one with an update.
ParseOmahaResponse_NoUpdateAsUpdate ==
    /\ pc = "parse_omaha_response"
    /\ CASE data = "invalid" ->
                /\ state' = "ErrorCheckingForUpdate"
                /\ \E outcome \in env.events :
                     log' = log \o
                       << StateChange("ErrorCheckingForUpdate"),
                          ReportOmahaEvent(OmahaEvent("UpdateComplete", "default",
                                                      "ParseResponse"),
                                           outcome) >>
                /\ result' = ErrResult("ResponseParser", "Json")
                /\ pc' = "bookkeeping"
          [] data \in {"noupdate", "update"} ->
                /\ log' = Append(log, Event("OmahaServerResponse", data))
                /\ pc' = "try_create_from"
                /\ UNCHANGED <<state, result>>
    /\ UNCHANGED <<env_vars, app_set, failures_since_success, schedule,
                   server_dictated_poll_interval, trigger, context, storage,
                   omaha_request_attempt, last_error, data, install_result,
                   progress_chan, ticks, reboot_polls, install_vars, app_vars>>

\* parse_omaha_response where an error of the event request replaces the
\* parse error.
ParseOmahaResponse_EventErrorReturned ==
    /\ pc = "parse_omaha_response"
    /\ CASE data = "invalid" ->
                /\ state' = "ErrorCheckingForUpdate"
                /\ \E outcome \in env.events :
                     /\ log' = log \o
                          << StateChange("ErrorCheckingForUpdate"),
                             ReportOmahaEvent(OmahaEvent("UpdateComplete",
                                                         "default",
                                                         "ParseResponse"),
                                              outcome) >>
                     /\ result' = IF outcome = "Ok"
                                  THEN ErrResult("ResponseParser", "Json")
                                  ELSE ErrResult("OmahaRequest", "Hyper")
                /\ pc' = "bookkeeping"
          [] data = "noupdate" ->
                /\ state' = "NoUpdateAvailable"
                /\ log' = log \o << Event("OmahaServerResponse", data),
                                    StateChange("NoUpdateAvailable") >>
                /\ result' = OkResult("NoUpdate")
                /\ pc' = "bookkeeping"
          [] data = "update" ->
                /\ log' = Append(log, Event("OmahaServerResponse", data))
                /\ pc' = "try_create_from"
                /\ UNCHANGED <<state, result>>
    /\ UNCHANGED <<env_vars, app_set, failures_since_success, schedule,
                   server_dictated_poll_interval, trigger, context, storage,
                   omaha_request_attempt, last_error, data, install_result,
                   progress_chan, ticks, reboot_polls, install_vars, app_vars>>

\* parse_omaha_response, OmahaServerResponse and the no-update decision.
ParseOmahaResponse ==
    /\ pc = "parse_omaha_response"
    /\ CASE data = "invalid" ->
                /\ state' = "ErrorCheckingForUpdate"
                /\ \E outcome \in env.events :
                     log' = log \o
                       << StateChange("ErrorCheckingForUpdate"),
                          ReportOmahaEvent(OmahaEvent("UpdateComplete", "default",
                                                      "ParseResponse"),
                                           outcome) >>
                /\ result' = ErrResult("ResponseParser", "Json")
                /\ pc' = "bookkeeping"
          [] data = "noupdate" ->
                /\ state' = "NoUpdateAvailable"
                /\ log' = log \o << Event("OmahaServerResponse", data),
                                    StateChange("NoUpdateAvailable") >>
                /\ result' = OkResult("NoUpdate")
                /\ pc' = "bookkeeping"
          [] data = "update" ->
                /\ log' = Append(log, Event("OmahaServerResponse", data))
                /\ pc' = "try_create_from"
                /\ UNCHANGED <<state, result>>
    /\ UNCHANGED <<env_vars, app_set, failures_since_success, schedule,
                   server_dictated_poll_interval, trigger, context, storage,
                   omaha_request_attempt, last_error, data, install_result,
                   progress_chan, ticks, reboot_polls, install_vars, app_vars>>

\* The error arm of try_create_from without set_state(InstallingUpdate)
\* before report_error.
TryCreateInstallPlan_NoInstallingUpdate ==
    /\ pc = "try_create_from"
    /\ \E plan \in env.plans \cup {"none"} :
        /\ install_plan' = plan
        /\ IF plan # "none"
           THEN /\ log' = Append(log, Call("try_create_from", "Ok"))
                /\ pc' = "update_can_start"
                /\ UNCHANGED <<state, result>>
           ELSE /\ state' = "InstallationError"
                /\ \E outcome \in env.events :
                     log' = Append(log, Call("try_create_from", "Err"))
                              \o ReportError("ConstructInstallPlan", outcome)
                /\ result' = ErrResult("InstallPlan", "")
                /\ pc' = "bookkeeping"
    /\ UNCHANGED <<env_vars, app_set, failures_since_success, schedule,
                   server_dictated_poll_interval, trigger, context, storage,
                   omaha_request_attempt, last_error, data, install_result,
                   progress_chan, ticks, reboot_polls, update_start_time,
                   update_first_seen_time, update_finish_time, app_vars>>

\* IN::InstallPlan::try_create_from and its error arm.
TryCreateInstallPlan ==
    /\ pc = "try_create_from"
    /\ \E plan \in env.plans \cup {"none"} :
        /\ install_plan' = plan
        /\ IF plan # "none"
           THEN /\ log' = Append(log, Call("try_create_from", "Ok"))
                /\ pc' = "update_can_start"
                /\ UNCHANGED <<state, result>>
           ELSE /\ state' = "InstallationError"
                /\ \E outcome \in env.events :
                     log' = log \o << Call("try_create_from", "Err"),
                                      StateChange("InstallingUpdate") >>
                                \o ReportError("ConstructInstallPlan", outcome)
                /\ result' = ErrResult("InstallPlan", "")
                /\ pc' = "bookkeeping"
    /\ UNCHANGED <<env_vars, app_set, failures_since_success, schedule,
                   server_dictated_poll_interval, trigger, context, storage,
                   omaha_request_attempt, last_error, data, install_result,
                   progress_chan, ticks, reboot_polls, update_start_time,
                   update_first_seen_time, update_finish_time, app_vars>>

\* update_can_start where a deferred install passes through
\* InstallingUpdate.
UpdateCanStart_DeferredViaInstalling ==
    /\ pc = "update_can_start"
    /\ \E decision \in update_can_start :
        CASE decision = "Ok" ->
                /\ log' = Append(log, Call("update_can_start", decision))
                /\ pc' = "start_install"
                /\ UNCHANGED <<state, result>>
          [] decision = "DeferredByPolicy" ->
                /\ state' = "InstallationDeferredByPolicy"
                /\ \E outcome \in env.events :
                     log' = log \o
                       << Call("update_can_start", decision),
                          StateChange("InstallingUpdate"),
                          ReportOmahaEvent(OmahaEvent("UpdateComplete",
                                                      "UpdateDeferred", "none"),
                                           outcome),
                          StateChange("InstallationDeferredByPolicy") >>
                /\ result' = OkResult("DeferredByPolicy")
                /\ pc' = "bookkeeping"
          [] decision = "DeniedByPolicy" ->
                /\ state' = "InstallationError"
                /\ \E outcome \in env.events :
                     log' = log \o << Call("update_can_start", decision),
                                      StateChange("InstallingUpdate") >>
                                \o ReportError("DeniedByPolicy", outcome)
                /\ result' = OkResult("DeniedByPolicy")
                /\ pc' = "bookkeeping"
    /\ UNCHANGED <<env_vars, app_set, failures_since_success, schedule,
                   server_dictated_poll_interval, trigger, context, storage,
                   omaha_request_attempt, last_error, data, install_result,
                   progress_chan, ticks, reboot_polls, install_vars, app_vars>>

\* update_can_start where a denied install fails the attempt with Policy.
UpdateCanStart_DeniedAsError ==
    /\ pc = "update_can_start"
    /\ \E decision \in update_can_start :
        CASE decision = "Ok" ->
                /\ log' = Append(log, Call("update_can_start", decision))
                /\ pc' = "start_install"
                /\ UNCHANGED <<state, result>>
          [] decision = "DeferredByPolicy" ->
                /\ state' = "InstallationDeferredByPolicy"
                /\ \E outcome \in env.events :
                     log' = log \o
                       << Call("update_can_start", decision),
                          ReportOmahaEvent(OmahaEvent("UpdateComplete",
                                                      "UpdateDeferred", "none"),
                                           outcome),
                          StateChange("InstallationDeferredByPolicy") >>
                /\ result' = OkResult("DeferredByPolicy")
                /\ pc' = "bookkeeping"
          [] decision = "DeniedByPolicy" ->
                /\ state' = "InstallationError"
                /\ \E outcome \in env.events :
                     log' = log \o << Call("update_can_start", decision),
                                      StateChange("InstallingUpdate") >>
                                \o ReportError("DeniedByPolicy", outcome)
                /\ result' = ErrResult("Policy", decision)
                /\ pc' = "bookkeeping"
    /\ UNCHANGED <<env_vars, app_set, failures_since_success, schedule,
                   server_dictated_poll_interval, trigger, context, storage,
                   omaha_request_attempt, last_error, data, install_result,
                   progress_chan, ticks, reboot_polls, install_vars, app_vars>>

\* policy_engine.update_can_start and the match on its decision.
UpdateCanStart ==
    /\ pc = "update_can_start"
    /\ \E decision \in update_can_start :
        CASE decision = "Ok" ->
                /\ log' = Append(log, Call("update_can_start", decision))
                /\ pc' = "start_install"
                /\ UNCHANGED <<state, result>>
          [] decision = "DeferredByPolicy" ->
                /\ state' = "InstallationDeferredByPolicy"
                /\ \E outcome \in env.events :
                     log' = log \o
                       << Call("update_can_start", decision),
                          ReportOmahaEvent(OmahaEvent("UpdateComplete",
                                                      "UpdateDeferred", "none"),
                                           outcome),
                          StateChange("InstallationDeferredByPolicy") >>
                /\ result' = OkResult("DeferredByPolicy")
                /\ pc' = "bookkeeping"
          [] decision = "DeniedByPolicy" ->
                /\ state' = "InstallationError"
                /\ \E outcome \in env.events :
                     log' = log \o << Call("update_can_start", decision),
                                      StateChange("InstallingUpdate") >>
                                \o ReportError("DeniedByPolicy", outcome)
                /\ result' = OkResult("DeniedByPolicy")
                /\ pc' = "bookkeeping"
    /\ UNCHANGED <<env_vars, app_set, failures_since_success, schedule,
                   server_dictated_poll_interval, trigger, context, storage,
                   omaha_request_attempt, last_error, data, install_result,
                   progress_chan, ticks, reboot_polls, install_vars, app_vars>>

\* set_state(InstallingUpdate), the UpdateDownloadStarted event, the reading
\* of update_start_time, record_update_first_seen_time and the creation of
\* the progress channel.
StartInstall ==
    /\ pc = "start_install"
    /\ \E now \in env.clock, outcome \in env.events :
        LET r == record_update_first_seen_time(storage, install_plan, now)
        IN  /\ update_start_time' = now
            /\ update_first_seen_time' = r.time
            /\ storage' = r.storage
            /\ log' = log \o << StateChange("InstallingUpdate"),
                                ReportSuccessEvent("UpdateDownloadStarted",
                                                   outcome),
                                Call("record_update_first_seen_time", "") >>
                          \o (IF r.commit
                              THEN << Entry("storage", "commit",
                                            "update_first_seen_time") >>
                              ELSE << >>)
    /\ state' = "InstallingUpdate"
    /\ install_result' = "none"
    /\ progress_chan' = << >>
    /\ ticks' = 0
    /\ pc' = "perform_install"
    /\ UNCHANGED <<env_vars, app_set, failures_since_success, schedule,
                   server_dictated_poll_interval, trigger, context,
                   omaha_request_attempt, last_error, data, result,
                   reboot_polls, install_plan, update_finish_time, app_vars>>

\* A progress channel that buffers a second tick before the first is yielded.
ReceiveProgress_Buffered ==
    /\ pc = "perform_install"
    /\ install_result = "none"
    /\ ticks < MaxProgress
    /\ Len(progress_chan) <= 1
    /\ progress_chan' = Append(progress_chan, ticks)
    /\ ticks' = ticks + 1
    /\ UNCHANGED <<pc, env_vars, app_set, failures_since_success, schedule,
                   server_dictated_poll_interval, trigger, state, context,
                   storage, omaha_request_attempt, last_error, data, result,
                   install_result, reboot_polls, log, install_vars, app_vars>>

\* The installer delivers a progress tick to the observer: a send on the
\* channel, which holds one message for its single sender.
ReceiveProgress ==
    /\ pc = "perform_install"
    /\ install_result = "none"
    /\ ticks < MaxProgress
    /\ progress_chan = << >>
    /\ progress_chan' = << ticks >>
    /\ ticks' = ticks + 1
    /\ UNCHANGED <<pc, env_vars, app_set, failures_since_success, schedule,
                   server_dictated_poll_interval, trigger, state, context,
                   storage, omaha_request_attempt, last_error, data, result,
                   install_result, reboot_polls, log, install_vars, app_vars>>

\* yield_progress: one tick is taken from the channel and yielded.
YieldProgress ==
    /\ pc = "perform_install"
    /\ progress_chan # << >>
    /\ log' = Append(log, Event("InstallProgressChange", Head(progress_chan)))
    /\ progress_chan' = Tail(progress_chan)
    /\ UNCHANGED <<pc, env_vars, app_set, failures_since_success, schedule,
                   server_dictated_poll_interval, trigger, state, context,
                   storage, omaha_request_attempt, last_error, data, result,
                   install_result, ticks, reboot_polls, install_vars,
                   app_vars>>

\* installer.perform_install returns and the observer is dropped.
PerformInstallReturns ==
    /\ pc = "perform_install"
    /\ install_result = "none"
    /\ \E r \in {"Ok", "Err"} :
        /\ install_result' = r
        /\ log' = Append(log, Call("perform_install", r))
    /\ UNCHANGED <<pc, env_vars, app_set, failures_since_success, schedule,
                   server_dictated_poll_interval, trigger, state, context,
                   storage, omaha_request_attempt, last_error, data, result,
                   progress_chan, ticks, reboot_polls, install_vars, app_vars>>

\* The metrics of a successful install, reported whatever the readings.
InstallMetrics_AnyDuration(res, start, first_seen, finish) ==
    IF res = "Err"
    THEN << Metric("FailedUpdateDuration", "duration") >>
    ELSE << Metric("SuccessfulUpdateDuration", "duration"),
            Metric("SuccessfulUpdateFromFirstSeen", "duration") >>

\* The duration metrics reported after the install: each one only when
\* duration_since gives Ok, that is when the later reading is not before the
\* earlier time.
InstallMetrics(res, start, first_seen, finish) ==
    IF res = "Err"
    THEN (IF DurationSince(finish, start) # None
          THEN << Metric("FailedUpdateDuration", "duration") >>
          ELSE << >>)
    ELSE (IF DurationSince(finish, start) # None
          THEN << Metric("SuccessfulUpdateDuration", "duration") >>
          ELSE << >>)
         \o (IF DurationSince(finish, first_seen) # None
             THEN << Metric("SuccessfulUpdateFromFirstSeen", "duration") >>
             ELSE << >>)

\* The end of the install where UpdateDownloadFinished is reported before the
\* result of perform_install is looked at.
FinishInstall_DownloadFinishedFirst ==
    /\ pc = "perform_install"
    /\ install_result # "none"
    /\ progress_chan = << >>
    /\ \E now \in env.clock, outcome, outcome2 \in env.events :
        /\ update_finish_time' = now
        /\ IF install_result = "Err"
           THEN /\ state' = "InstallationError"
                /\ log' = log
                     \o << ReportSuccessEvent("UpdateDownloadFinished",
                                              outcome2) >>
                     \o ReportError("Installation", outcome)
                              \o InstallMetrics(install_result,
                                                update_start_time,
                                                update_first_seen_time, now)
                /\ result' = OkResult("InstallPlanExecutionError")
           ELSE /\ state' = "WaitingForReboot"
                /\ log' = log
                     \o << ReportSuccessEvent("UpdateDownloadFinished",
                                              outcome),
                           ReportSuccessEvent("UpdateComplete", outcome2) >>
                     \o InstallMetrics(install_result, update_start_time,
                                       update_first_seen_time, now)
                     \o << StateChange("WaitingForReboot") >>
                /\ result' = OkResult("Updated")
    /\ pc' = "bookkeeping"
    /\ UNCHANGED <<env_vars, app_set, failures_since_success, schedule,
                   server_dictated_poll_interval, trigger, context, storage,
                   omaha_request_attempt, last_error, data, install_result,
                   progress_chan, ticks, reboot_polls, install_plan,
                   update_start_time, update_first_seen_time, app_vars>>

\* The join of perform_install and yield_progress completes; the rest of
\* perform_update_check.
FinishInstall ==
    /\ pc = "perform_install"
    /\ install_result # "none"
    /\ progress_chan = << >>
    /\ \E now \in env.clock, outcome, outcome2 \in env.events :
        /\ update_finish_time' = now
        /\ IF install_result = "Err"
           THEN /\ state' = "InstallationError"
                /\ log' = log \o ReportError("Installation", outcome)
                              \o InstallMetrics(install_result,
                                                update_start_time,
                                                update_first_seen_time, now)
                /\ result' = OkResult("InstallPlanExecutionError")
           ELSE /\ state' = "WaitingForReboot"
                /\ log' = log
                     \o << ReportSuccessEvent("UpdateDownloadFinished",
                                              outcome),
                           ReportSuccessEvent("UpdateComplete", outcome2) >>
                     \o InstallMetrics(install_result, update_start_time,
                                       update_first_seen_time, now)
                     \o << StateChange("WaitingForReboot") >>
                /\ result' = OkResult("Updated")
    /\ pc' = "bookkeeping"
    /\ UNCHANGED <<env_vars, app_set, failures_since_success, schedule,
                   server_dictated_poll_interval, trigger, context, storage,
                   omaha_request_attempt, last_error, data, install_result,
                   progress_chan, ticks, reboot_polls, install_plan,
                   update_start_time, update_first_seen_time, app_vars>>

(***************************************************************************)
(* start_update_check after perform_update_check has returned              *)
(***************************************************************************)
\* consecutive_failed_update_checks after the match on the result.
NextFailedChecks(res, c) == IF res.kind = "Ok" THEN U32(0) ELSE U32Inc(c)

\* consecutive_failed_update_attempts after the match on the result.
NextFailedAttempts(res, c) ==
    IF res.kind = "Ok"
    THEN IF res.v = "InstallPlanExecutionError" THEN U32Inc(c) ELSE U32(0)
    ELSE c

\* report_attempts_to_succeed without the `+ 1`.
AttemptsToSucceed_StoredCount(st) ==
    UnwrapOr(st.consecutive_failed_update_checks, I64(0))

\* report_attempts_to_succeed: the stored counter plus one.
AttemptsToSucceed(st) ==
    I64Succ(UnwrapOr(st.consecutive_failed_update_checks, I64(0)))

\* The metrics start_update_check reports for the result.
ResultMetrics(res, st) ==
    IF res.kind = "Ok"
    THEN << Metric("AttemptsToSucceed", AttemptsToSucceed(st)) >>
    ELSE << Metric("UpdateCheckFailureReason", FailureReason(res)) >>

\* The classification where only a success sets last_update_time.
SetsLastUpdateTime_OkOnly(res) == res.kind = "Ok"

\* Whether the match on the result sets schedule.last_update_time to now:
\* after a success, and after a failure met once the server had answered.
SetsLastUpdateTime(res) ==
    \/ res.kind = "Ok"
    \/ res.kind = "Err" /\ res.v \in {"ResponseParser", "InstallPlan"}

\* schedule.last_update_time as the ScheduleChange event shows it.
LastUpdateTime(res) == IF SetsLastUpdateTime(res) THEN "now" ELSE "unchanged"

\* The events with UpdateCheckResult yielded in the Ok arm only.
ResultEvents_OkOnly(res, ctx) ==
    << Event("ScheduleChange", LastUpdateTime(res)),
       Event("ProtocolStateChange", ctx) >>
    \o (IF res.kind = "Ok" THEN << Event("UpdateCheckResult", res) >> ELSE << >>)

\* The events with ProtocolStateChange yielded before ScheduleChange.
ResultEvents_ProtocolFirst(res, ctx) ==
    << Event("ProtocolStateChange", ctx),
       Event("ScheduleChange", LastUpdateTime(res)),
       Event("UpdateCheckResult", res) >>

\* The match on the result where every result sets last_update_time.
NextLastUpdateTime_OnEveryResult(res, last_update_time, now) == Some(now)

\* schedule.last_update_time after the match on the result, `now` being the
\* reading of the time source.
NextLastUpdateTime(res, last_update_time, now) ==
    IF SetsLastUpdateTime(res) THEN Some(now) ELSE last_update_time

\* Response::server_dictated_poll_interval as make_response builds it.
MadePollInterval == None

\* The match on the result with the poll interval left as it was.
NextPollInterval_Kept(res, interval) == interval

\* context.state.server_dictated_poll_interval after the match on the result.
NextPollInterval(res, interval) ==
    IF res.kind = "Ok" THEN MadePollInterval ELSE interval

\* The three events yielded after the match on the result.
ResultEvents(res, ctx) ==
    << Event("ScheduleChange", LastUpdateTime(res)),
       Event("ProtocolStateChange", ctx),
       Event("UpdateCheckResult", res) >>

\* make_response: one AppResponse for every app of the response, with the
\* app's cohort and the user counting of the response's daystart.
make_response(response) ==
    [id \in DOMAIN response |->
        AppState(response[id].cohort, response[id].elapsed_days)]

\* app_set.update_from_omaha: the apps named by an AppResponse take its
\* cohort and user counting, the others stay as they are.
update_from_omaha(set, app_responses) ==
    [id \in DOMAIN set |->
        IF id \in DOMAIN app_responses THEN app_responses[id] ELSE set[id]]

\* The app set updated from the response whatever the result.
NextAppSet_OnErrToo(res, set, response) ==
    update_from_omaha(set, make_response(response))

\* self.app_set after the match on the result.
NextAppSet(res, set, response) ==
    IF res.kind = "Ok"
    THEN update_from_omaha(set, make_response(response))
    ELSE set

\* The match on the result, report_attempts_to_succeed and the events.
Bookkeeping ==
    /\ pc = "bookkeeping"
    /\ app_set' = NextAppSet(result, app_set, response_apps)
    /\ failures_since_success' =
         IF result.kind = "Ok" THEN 0 ELSE failures_since_success + 1
    /\ context' =
         [consecutive_failed_update_checks |->
             NextFailedChecks(result, context.consecutive_failed_update_checks),
          consecutive_failed_update_attempts |->
             NextFailedAttempts(result, context.consecutive_failed_update_attempts)]
    /\ storage' =
         [storage EXCEPT !.consecutive_failed_update_checks =
             IF result.kind = "Ok" THEN None
             ELSE Some(AttemptsToSucceed(storage))]
    /\ \E now \in env.update_clock :
         schedule' = [schedule EXCEPT !.last_update_time =
                         NextLastUpdateTime(result, schedule.last_update_time,
                                            now)]
    /\ server_dictated_poll_interval' =
         NextPollInterval(result, server_dictated_poll_interval)
    /\ log' = log \o ResultMetrics(result, storage)
                  \o ResultEvents(result, context')
    /\ pc' = "persist_data"
    /\ UNCHANGED <<env_vars, trigger, state, attempt_vars>>

\* The test of self.state as `!= Idle`.
RebootPending_NotIdle(st) == st # "Idle"

\* The read of self.state that selects the reboot gate.
RebootPending(st) == st = "WaitingForReboot"

\* persist_data left out when a reboot is pending.
PersistData_NotBeforeReboot ==
    /\ pc = "persist_data"
    /\ log' = IF RebootPending(state) THEN log
              ELSE Append(log, Entry("storage", "commit", "persist_data"))
    /\ pc' = IF RebootPending(state) THEN "reboot_allowed" ELSE "set_idle"
    /\ UNCHANGED <<env_vars, app_set, failures_since_success, schedule,
                   server_dictated_poll_interval, trigger, state, context,
                   storage, attempt_vars>>

\* persist_data, and the test of self.state.
PersistData ==
    /\ pc = "persist_data"
    /\ log' = Append(log, Entry("storage", "commit", "persist_data"))
    /\ pc' = IF RebootPending(state) THEN "reboot_allowed" ELSE "set_idle"
    /\ UNCHANGED <<env_vars, app_set, failures_since_success, schedule,
                   server_dictated_poll_interval, trigger, state, context,
                   storage, attempt_vars>>

\* The reboot gate polling again without the 30 minute wait.
RebootAllowed_NoWait ==
    /\ pc = "reboot_allowed"
    /\ \E allowed \in BOOLEAN :
        IF allowed
        THEN /\ log' = Append(log, Call("reboot_allowed", "true"))
             /\ pc' = "perform_reboot"
             /\ UNCHANGED reboot_polls
        ELSE /\ reboot_polls < MaxRebootPolls
             /\ log' = Append(log, Call("reboot_allowed", "false"))
             /\ reboot_polls' = reboot_polls + 1
             /\ pc' = "reboot_allowed"
    /\ UNCHANGED <<env_vars, app_set, failures_since_success, schedule,
                   server_dictated_poll_interval, trigger, state, context,
                   storage, omaha_request_attempt, last_error, data, result,
                   install_result, progress_chan, ticks, install_vars,
                   app_vars>>

\* One pass of the reboot gate: reboot_allowed and, when it answers false,
\* the 30 minute wait.
RebootAllowed ==
    /\ pc = "reboot_allowed"
    /\ \E allowed \in BOOLEAN :
        IF allowed
        THEN /\ log' = Append(log, Call("reboot_allowed", "true"))
             /\ pc' = "perform_reboot"
             /\ UNCHANGED reboot_polls
        ELSE /\ reboot_polls < MaxRebootPolls
             /\ log' = log \o << Call("reboot_allowed", "false"),
                                 WaitFor(RebootWaitMs) >>
             /\ reboot_polls' = reboot_polls + 1
             /\ pc' = "reboot_allowed"
    /\ UNCHANGED <<env_vars, app_set, failures_since_success, schedule,
                   server_dictated_poll_interval, trigger, state, context,
                   storage, omaha_request_attempt, last_error, data, result,
                   install_result, progress_chan, ticks, install_vars,
                   app_vars>>

\* perform_reboot whose error ends the task.
PerformReboot_ErrorEndsTask ==
    /\ pc = "perform_reboot"
    /\ log' = Append(log, Call("perform_reboot", ""))
    /\ pc' \in {"set_idle", "exited"}
    /\ UNCHANGED <<env_vars, app_set, failures_since_success, schedule,
                   server_dictated_poll_interval, trigger, state, context,
                   storage, attempt_vars>>

\* installer.perform_reboot; its error is logged and ignored.
PerformReboot ==
    /\ pc = "perform_reboot"
    /\ log' = Append(log, Call("perform_reboot", ""))
    /\ pc' = "set_idle"
    /\ UNCHANGED <<env_vars, app_set, failures_since_success, schedule,
                   server_dictated_poll_interval, trigger, state, context,
                   storage, attempt_vars>>

\* start_update_check returning without set_state(Idle) after an Err.
SetIdle_OkOnly ==
    /\ pc = "set_idle"
    /\ IF result.kind = "Ok"
       THEN /\ state' = "Idle"
            /\ log' = Append(log, StateChange("Idle"))
       ELSE UNCHANGED <<state, log>>
    /\ pc' = "loop"
    /\ UNCHANGED <<env_vars, app_set, failures_since_success, schedule,
                   server_dictated_poll_interval, trigger, context, storage,
                   attempt_vars>>

\* set_state(Idle); start_update_check returns and the inner select loop of
\* run breaks.
SetIdle ==
    /\ pc = "set_idle"
    /\ state' = "Idle"
    /\ log' = Append(log, StateChange("Idle"))
    /\ pc' = "loop"
    /\ UNCHANGED <<env_vars, app_set, failures_since_success, schedule,
                   server_dictated_poll_interval, trigger, context, storage,
                   attempt_vars>>

Next ==
    \/ Run
    \/ UpdateNextUpdateTime
    \/ WaitForCompletes
    \/ WaitUntilCompletes
    \/ SelectTimer
    \/ SelectControl
    \/ ControlDuringCheck
    \/ SendStartUpdateCheck
    \/ UpdateCheckAllowed
    \/ ReportCheckInterval
    \/ DoOmahaRequest
    \/ Backoff
    \/ ParseOmahaResponse
    \/ TryCreateInstallPlan
    \/ UpdateCanStart
    \/ StartInstall
    \/ ReceiveProgress
    \/ YieldProgress
    \/ PerformInstallReturns
    \/ FinishInstall
    \/ Bookkeeping
    \/ PersistData
    \/ RebootAllowed
    \/ PerformReboot
    \/ SetIdle

Spec == Init /\ [][Next]_vars

\* The state machine when no control handle sends a request.
NextUnattended ==
    \/ Run
    \/ UpdateNextUpdateTime
    \/ WaitForCompletes
    \/ WaitUntilCompletes
    \/ SelectTimer
    \/ UpdateCheckAllowed
    \/ ReportCheckInterval
    \/ DoOmahaRequest
    \/ Backoff
    \/ ParseOmahaResponse
    \/ TryCreateInstallPlan
    \/ UpdateCanStart
    \/ StartInstall
    \/ ReceiveProgress
    \/ YieldProgress
    \/ PerformInstallReturns
    \/ FinishInstall
    \/ Bookkeeping
    \/ PersistData
    \/ RebootAllowed
    \/ PerformReboot
    \/ SetIdle

\* The unattended state machine in an environment whose wall clock and
\* install plans vary.
SpecClock == InitClock /\ [][NextUnattended]_vars

\* The unattended state machine in an environment whose event requests may
\* fail.
SpecEvents == InitEvents /\ [][NextUnattended]_vars

\* The unattended state machine in an environment whose responses change
\* the cohort and the user counting of the apps.
SpecCohorts == InitCohorts /\ [][NextUnattended]_vars

\* The unattended state machine whose context was loaded from storage.
SpecLoaded == InitLoaded /\ [][NextUnattended]_vars

\* The steps of the state machine whose policy engine is StubPolicyEngine:
\* wait_to_next_check is wait_until alone, as the stub never names a minimum
\* wait.
NextStub ==
    \/ Run
    \/ UpdateNextUpdateTime
    \/ WaitUntilCompletes
    \/ SelectTimer
    \/ SelectControl
    \/ ControlDuringCheck
    \/ SendStartUpdateCheck
    \/ UpdateCheckAllowed
    \/ ReportCheckInterval
    \/ DoOmahaRequest
    \/ Backoff
    \/ ParseOmahaResponse
    \/ TryCreateInstallPlan
    \/ UpdateCanStart
    \/ StartInstall
    \/ ReceiveProgress
    \/ YieldProgress
    \/ PerformInstallReturns
    \/ FinishInstall
    \/ Bookkeeping
    \/ PersistData
    \/ RebootAllowed
    \/ PerformReboot
    \/ SetIdle

\* The state machine whose policy engine is StubPolicyEngine.
SpecStub == InitStub /\ [][NextStub]_vars

\* reboot_allowed answers true.
RebootGranted == RebootAllowed /\ pc' = "perform_reboot"

\* The executor keeps polling the task, every call the task awaits returns
\* and the reboot gate is opened at some time.
Fairness == WF_vars(NextUnattended) /\ WF_vars(RebootGranted)

\* The unattended state machine whose task is scheduled fairly, in an
\* environment whose event requests may fail.
SpecLive == InitEvents /\ [][NextUnattended]_vars /\ Fairness

\* A control handle sends its request while an attempt is running.
SendDuringAttempt == pc \in AttemptPcs /\ SendStartUpdateCheck

\* The state machine whose control handles send requests only during an
\* attempt: a request the inner select loop has not taken when the attempt
\* completes is still in the channel at the next select!.
NextBusy ==
    \/ Run
    \/ UpdateNextUpdateTime
    \/ WaitForCompletes
    \/ WaitUntilCompletes
    \/ SelectTimer
    \/ SelectControl
    \/ ControlDuringCheck
    \/ SendDuringAttempt
    \/ UpdateCheckAllowed
    \/ ReportCheckInterval
    \/ DoOmahaRequest
    \/ Backoff
    \/ ParseOmahaResponse
    \/ TryCreateInstallPlan
    \/ UpdateCanStart
    \/ StartInstall
    \/ ReceiveProgress
    \/ YieldProgress
    \/ PerformInstallReturns
    \/ FinishInstall
    \/ Bookkeeping
    \/ PersistData
    \/ RebootAllowed
    \/ PerformReboot
    \/ SetIdle

SpecBusy == Init /\ [][NextBusy]_vars

TypeOK ==
    /\ pc \in {"run", "exited", "loop", "select"} \cup AttemptPcs
    /\ state \in States
    /\ options \in InstallSources
    /\ request_params \in {NoRequestParams}
          \cup [source : InstallSources, use_configured_proxies : BOOLEAN]
    /\ attempts \in 0..MaxAttempts
    /\ Len(control) <= MaxRequests
    /\ Len(replies) <= MaxRequests
    /\ handles_dropped \in BOOLEAN
    /\ schedule \in [last_update_time : {None} \cup {Some(t) : t \in ClockReadings},
                     next_update_time : {None} \cup {Some(t) : t \in ClockReadings}]
    /\ server_dictated_poll_interval \in {None, Some("poll")}

\* The last ControlHandle is dropped, which closes the control channel. A
\* call of start_update_check borrows its handle until it has its reply, so
\* no request is in the channel then.
DropControlHandles ==
    /\ pc # "exited"
    /\ ~handles_dropped
    /\ control = << >>
    /\ handles_dropped' = TRUE
    /\ UNCHANGED <<pc, app_set_valid, app_set, failures_since_success,
                   schedule, server_dictated_poll_interval, env, state,
                   context, options, sched_vars, control, sent, replies,
                   attempt_vars, attempts, trigger, prev_context, storage,
                   log>>

\* The steps of the state machine and of control handles that may be dropped.
NextDropped ==
    \/ Run
    \/ UpdateNextUpdateTime
    \/ WaitForCompletes
    \/ WaitUntilCompletes
    \/ SelectTimer
    \/ SelectControl
    \/ ControlDuringCheck
    \/ SendStartUpdateCheck
    \/ DropControlHandles
    \/ UpdateCheckAllowed
    \/ ReportCheckInterval
    \/ DoOmahaRequest
    \/ Backoff
    \/ ParseOmahaResponse
    \/ TryCreateInstallPlan
    \/ UpdateCanStart
    \/ StartInstall
    \/ ReceiveProgress
    \/ YieldProgress
    \/ PerformInstallReturns
    \/ FinishInstall
    \/ Bookkeeping
    \/ PersistData
    \/ RebootAllowed
    \/ PerformReboot
    \/ SetIdle

\* The state machine whose control handles may all be dropped while it runs.
SpecDropped == Init /\ [][NextDropped]_vars

(***************************************************************************)
(* Properties                                                              *)
(***************************************************************************)
\* start_update_check has returned and its log is complete.
AttemptDone == pc = "loop" /\ attempts > 0

InAttempt == pc \in AttemptPcs

Events == SelectSeq(log, IsEvent)

IsIdleChange(x) == IsStateChangeTo(x, "Idle")

IsPerformReboot(x) == IsCall(x, "perform_reboot")

IsUpdateCheckResult(x) == x.k = "event" /\ x.e = "UpdateCheckResult"

IsRetriesMetric(x) == IsMetric(x, "UpdateCheckRetries")

IsFailureReasonMetric(x) == IsMetric(x, "UpdateCheckFailureReason")

IsExchangeOrWaitFor(x) == IsUpdateCheckRequest(x) \/ IsWaitFor(x)

UpdateCheckResults == SelectSeq(log, IsUpdateCheckResult)

RetriesMetrics == SelectSeq(log, IsRetriesMetric)

FailureReasons == SelectSeq(log, IsFailureReasonMetric)

\* The update-check exchanges and the wait_for requests, in order.
ExchangesAndWaits == SelectSeq(log, IsExchangeOrWaitFor)

\* Number of update-check exchanges made.
Exchanges == Len(SelectSeq(log, IsUpdateCheckRequest))

Reboots == Len(SelectSeq(log, IsPerformReboot))

\* Index in the log of the last update-check exchange / of perform_reboot.
LastExchangeIndex ==
    CHOOSE i \in 1..Len(log) :
        /\ IsUpdateCheckRequest(log[i])
        /\ \A j \in (i + 1)..Len(log) : ~IsUpdateCheckRequest(log[j])

RebootIndex == CHOOSE i \in 1..Len(log) : IsPerformReboot(log[i])

\* C1: whatever the outcome of an attempt, the last event it emits is
\* StateChange(Idle) and the machine state is Idle when it returns.
C1_AttemptEndsIdle ==
    AttemptDone =>
        /\ state = "Idle"
        /\ Events # << >>
        /\ IsIdleChange(Last(Events))

C1_Witness ==
    /\ AttemptDone
    /\ result = OkResult("Updated")
    /\ Reboots = 1
    /\ IsIdleChange(Last(Events))

\* C2: a StartUpdateCheck request received while an attempt is in progress
\* is answered AlreadyRunning; its options are dropped and the attempt (its
\* options, position, result and log) is untouched.
C2_AlreadyRunningDuringAttempt ==
    [][ (InAttempt /\ replies' # replies) =>
            /\ control # << >>
            /\ replies' = Append(replies, "AlreadyRunning")
            /\ control' = Tail(control)
            /\ options' = options
            /\ pc' = pc
            /\ state' = state
            /\ result' = result
            /\ Len(log') = Len(log) ]_vars

C2_Witness ==
    /\ pc = "perform_install"
    /\ attempts = 1
    /\ options = DefaultCheckOptions
    /\ sent = 1
    /\ replies = << "AlreadyRunning" >>

\* C3: a request received while the loop waits for the next check time is
\* answered Started before the attempt has emitted anything, and the attempt
\* starts at once with the request's options whether or not the timers have
\* completed; while the loop keeps waiting nothing is emitted, and it leaves
\* the wait only for a completed timer or a request.
C3_StartedWhileWaiting ==
    /\ [][ pc = "select" =>
            /\ (replies' # replies =>
                    /\ control # << >>
                    /\ replies' = Append(replies, "Started")
                    /\ options' = Head(control)
                    /\ pc' = "update_check_allowed"
                    /\ log' = << >>)
            /\ (pc' = "select" => Len(log') = Len(log))
            /\ (pc' # "select" => (WaitToNextCheckReady \/ replies' # replies)) ]_vars
    /\ [](pc = "select" /\ control # << >> => ENABLED SelectControl)

C3_Witness ==
    /\ pc = "update_check_allowed"
    /\ trigger = [arm |-> "request", wait_ready |-> FALSE]
    /\ options = "OnDemand"
    /\ Last(replies) = "Started"
    /\ log = << >>

\* C4: every attempt emits exactly one UpdateCheckResult event, carrying Ok
\* exactly when perform_update_check returned Ok.
C4_OneUpdateCheckResult ==
    /\ Len(UpdateCheckResults) <= 1
    /\ AttemptDone =>
        /\ Len(UpdateCheckResults) = 1
        /\ result.kind \in {"Ok", "Err"}
        /\ UpdateCheckResults[1].v.kind = result.kind

C4_Witness ==
    /\ AttemptDone
    /\ result.kind = "Err"
    /\ Len(UpdateCheckResults) = 1
    /\ UpdateCheckResults[1].v.kind = "Err"

\* C5: after every attempt consecutive_failed_update_checks is 0 iff the
\* attempt completed Ok, and after an Err attempt it is its value before the
\* attempt plus 1.
C5_FailedChecksCounter ==
    AttemptDone =>
        /\ (context.consecutive_failed_update_checks = U32(0))
              <=> (result.kind = "Ok")
        /\ result.kind = "Err" =>
              context.consecutive_failed_update_checks =
                  MathSucc(prev_context.consecutive_failed_update_checks)

\* C6: no attempt makes more than 3 update-check exchanges; UpdateCheckRetries
\* is reported only when an exchange succeeded and equals the number of
\* exchanges made, between 1 and 3.
C6_RetriesMetric ==
    (InAttempt \/ AttemptDone) =>
        /\ Exchanges <= 3
        /\ Len(RetriesMetrics) <= 1
        /\ (Len(RetriesMetrics) = 1) <=> (data \in Bodies)
        /\ Len(RetriesMetrics) = 1 =>
              /\ RetriesMetrics[1].v = Exchanges
              /\ RetriesMetrics[1].v \in 1..3

C6_Witness ==
    /\ AttemptDone
    /\ Len(RetriesMetrics) = 1
    /\ RetriesMetrics[1].v = 3

\* The backoff window after the k-th failed exchange, in milliseconds.
InBackoffWindow(k, ms) ==
    /\ ms >= 1000 * (2 ^ (k - 1)) - 500
    /\ ms < 1000 * (2 ^ (k - 1)) + 500

\* C7: between the k-th failed exchange and the next one there is exactly one
\* wait_for, within 500 ms of 1000 * 2^(k-1); three failed exchanges give
\* exactly two waits, none after the third, and the attempt fails with
\* OmahaRequest.
C7_BackoffWaits ==
    (InAttempt \/ AttemptDone) =>
        /\ \A k \in 1..(Exchanges - 1) :
              /\ IsUpdateCheckRequest(ExchangesAndWaits[2 * k - 1])
              /\ IsWaitFor(ExchangesAndWaits[2 * k])
              /\ InBackoffWindow(k, ExchangesAndWaits[2 * k].v)
        /\ Exchanges >= 1 =>
              IsUpdateCheckRequest(ExchangesAndWaits[2 * Exchanges - 1])
        /\ (Exchanges = 3 /\ data = "none") =>
              /\ result.kind = "Err"
              /\ result.v = "OmahaRequest"
              /\ Len(ExchangesAndWaits) = 5
              /\ ExchangesAndWaits[2].v \in 500..1500
              /\ ExchangesAndWaits[4].v \in 1500..2500

C7_Witness ==
    /\ AttemptDone
    /\ Exchanges = 3
    /\ result = ErrResult("OmahaRequest", "HttpStatus")
    /\ Len(ExchangesAndWaits) = 5
    /\ ExchangesAndWaits[2].v = 1499
    /\ ExchangesAndWaits[4].v = 1500

\* C8: an exchange failing with Json, HttpBuilder or a user transport error is
\* not retried: it is the attempt's last request, no wait follows it, the
\* state becomes ErrorCheckingForUpdate and the attempt fails with
\* OmahaRequest; only Hyper (non-user) and HttpStatus errors reach the backoff.
C8_NoRetryOfTerminalErrors ==
    (InAttempt \/ AttemptDone) =>
        /\ pc = "backoff" => last_error \in {"Hyper", "HttpStatus"}
        /\ last_error \in {"Json", "HttpBuilder", "HyperUser"} =>
              /\ result = ErrResult("OmahaRequest", last_error)
              /\ pc \notin {"do_omaha_request", "backoff"}
              /\ Len(ExchangesAndWaits) = 2 * Exchanges - 1
              /\ \A i \in (LastExchangeIndex + 1)..Len(log) : ~IsRequest(log[i])
              /\ IsStateChangeTo(log[LastExchangeIndex + 1],
                                 "ErrorCheckingForUpdate")

C8_Witness ==
    /\ AttemptDone
    /\ last_error = "HyperUser"
    /\ Exchanges = 2
    /\ result = ErrResult("OmahaRequest", "HyperUser")

\* The failure reason the classification is claimed to give.
ClaimedReason(res) ==
    IF res.v = "Policy" THEN "Internal"
    ELSE IF res.v = "OmahaRequest"
         THEN IF res.d \in {"Json", "HttpBuilder"} THEN "Internal" ELSE "Network"
         ELSE "Omaha"

\* C9: every Err attempt reports exactly one UpdateCheckFailureReason and no
\* Ok attempt reports one; Internal for Policy, Json and HttpBuilder, Network
\* for Hyper and HttpStatus, Omaha for ResponseParser and InstallPlan.
C9_FailureReason ==
    (InAttempt \/ AttemptDone) =>
        /\ Len(FailureReasons) <= 1
        /\ result.kind = "Ok" => Len(FailureReasons) = 0
        /\ (AttemptDone /\ result.kind = "Err") =>
              /\ Len(FailureReasons) = 1
              /\ FailureReasons[1].v = ClaimedReason(result)
              /\ result.v \in {"Policy", "OmahaRequest", "ResponseParser",
                               "InstallPlan"}

C9_Witness ==
    /\ AttemptDone
    /\ result = ErrResult("OmahaRequest", "HttpBuilder")
    /\ Len(FailureReasons) = 1
    /\ FailureReasons[1].v = "Internal"

\* C10: perform_reboot is invoked at most once per attempt, only when the
\* installer succeeded, after StateChange(WaitingForReboot) and the
\* bookkeeping and before StateChange(Idle); never in any other attempt.
C10_RebootOnlyAfterInstall ==
    (InAttempt \/ AttemptDone) =>
        /\ Reboots <= 1
        /\ Reboots = 1 =>
              /\ install_result = "Ok"
              /\ result = OkResult("Updated")
              /\ \E j \in 1..(RebootIndex - 1) :
                    IsStateChangeTo(log[j], "WaitingForReboot")
              /\ \E j \in 1..(RebootIndex - 1) : IsUpdateCheckResult(log[j])
              /\ \A j \in 1..(RebootIndex - 1) : ~IsIdleChange(log[j])
        /\ (AttemptDone /\ result # OkResult("Updated")) => Reboots = 0
        /\ (AttemptDone /\ Reboots = 1) => IsIdleChange(Last(log))

C10_Witness ==
    /\ AttemptDone
    /\ Reboots = 1
    /\ state = "Idle"

IsRebootAllowed(x) == IsCall(x, "reboot_allowed")

IsRebootRefused(x) == IsCall(x, "reboot_allowed") /\ x.v = "false"

IsRebootGranted(x) == IsCall(x, "reboot_allowed") /\ x.v = "true"

IsRebootWait(x) == IsWaitFor(x) /\ x.v = RebootWaitMs

\* C11: perform_reboot directly follows a reboot_allowed query that answered
\* true; every query that answered false is followed by exactly one wait_for
\* of 30 minutes and then by the next query; StateChange(Idle) is not emitted
\* after a refusal until a query has answered true.
C11_RebootWaitLoop ==
    (InAttempt \/ AttemptDone) =>
        /\ \A i \in 1..Len(log) :
              IsPerformReboot(log[i]) => i > 1 /\ IsRebootGranted(log[i - 1])
        /\ \A i \in 1..Len(log) :
              IsRebootRefused(log[i]) =>
                  /\ i + 1 <= Len(log)
                  /\ IsRebootWait(log[i + 1])
                  /\ i + 2 <= Len(log) => IsRebootAllowed(log[i + 2])
        /\ Len(SelectSeq(log, IsRebootWait)) = Len(SelectSeq(log, IsRebootRefused))
        /\ Len(SelectSeq(log, IsRebootRefused)) = reboot_polls
        /\ \A i \in 1..Len(log) :
              IsRebootAllowed(log[i]) =>
                  \A j \in 1..(i - 1) : ~IsStateChange(log[j]) \/ ~IsIdleChange(log[j])
        /\ \A i \in 1..Len(log) :
              IsIdleChange(log[i]) =>
                  \A j \in 1..(i - 1) :
                      IsRebootRefused(log[j]) =>
                          \E m \in (j + 1)..(i - 1) : IsRebootGranted(log[m])

C11_Witness ==
    /\ AttemptDone
    /\ reboot_polls = 1
    /\ Reboots = 1
    /\ Len(SelectSeq(log, IsRebootWait)) = 1
    /\ IsIdleChange(Last(log))

\* The step in which record_update_first_seen_time is called.
FirstSeenCall == pc = "start_install" /\ pc' = "perform_install"

\* C12: a call of record_update_first_seen_time(id, now) whose id is not the
\* stored install_plan_id stores id and now (as microseconds), commits and
\* returns now; a call whose id is the stored one returns the stored
\* first-seen time and leaves both keys as they are; the stored first-seen
\* time changes in no step that keeps the stored id.
C12_FirstSeenTime ==
    [][ /\ (FirstSeenCall /\ storage.install_plan_id # Some(install_plan)) =>
              /\ storage'.install_plan_id = Some(install_plan)
              /\ storage'.update_first_seen_time =
                     Some(update_start_time' \div TicksPerMicro)
              /\ update_first_seen_time' = update_start_time'
              /\ Last(log').k = "storage"
              /\ Last(log').e = "commit"
        /\ (FirstSeenCall /\ storage.install_plan_id = Some(install_plan)) =>
              /\ storage'.install_plan_id = storage.install_plan_id
              /\ storage'.update_first_seen_time = storage.update_first_seen_time
              /\ storage.update_first_seen_time # None
              /\ update_first_seen_time' =
                     storage.update_first_seen_time[1] * TicksPerMicro
              /\ Last(log').k # "storage"
        /\ storage'.install_plan_id = storage.install_plan_id =>
              storage'.update_first_seen_time = storage.update_first_seen_time
        /\ storage'.install_plan_id # storage.install_plan_id => FirstSeenCall
      ]_vars

\* A second call with the id of the first returned the stored time, which is
\* not the time of the call.
C12_Witness ==
    /\ pc = "perform_install"
    /\ attempts = 2
    /\ storage.install_plan_id = Some(install_plan)
    /\ storage.update_first_seen_time = Some(0)
    /\ update_start_time = 2
    /\ update_first_seen_time = 0

IsSuccessfulUpdateDuration(x) == IsMetric(x, "SuccessfulUpdateDuration")

IsSuccessfulUpdateFromFirstSeen(x) == IsMetric(x, "SuccessfulUpdateFromFirstSeen")

SuccessfulUpdateDurations == Len(SelectSeq(log, IsSuccessfulUpdateDuration))

SuccessfulUpdatesFromFirstSeen ==
    Len(SelectSeq(log, IsSuccessfulUpdateFromFirstSeen))

\* perform_update_check has returned after a successful install.
InstallSucceeded == result = OkResult("Updated")

\* C13 as claimed: no SuccessfulUpdateDuration and no
\* SuccessfulUpdateFromFirstSeen is reported unless the installer succeeded,
\* and after a successful install each has been reported exactly once,
\* whatever the clock read.
C13_DurationMetricsAlways ==
    (InAttempt \/ AttemptDone) =>
        /\ ~InstallSucceeded =>
              SuccessfulUpdateDurations = 0 /\ SuccessfulUpdatesFromFirstSeen = 0
        /\ InstallSucceeded =>
              SuccessfulUpdateDurations = 1 /\ SuccessfulUpdatesFromFirstSeen = 1

\* C13 amended: no SuccessfulUpdateDuration and no
\* SuccessfulUpdateFromFirstSeen is reported unless the installer succeeded;
\* after a successful install SuccessfulUpdateDuration has been reported once
\* when the time read after the install is not before update_start_time and
\* not at all otherwise, and SuccessfulUpdateFromFirstSeen once when that
\* time is not before the first-seen time and not at all otherwise.
C13_DurationMetrics ==
    (InAttempt \/ AttemptDone) =>
        /\ ~InstallSucceeded =>
              SuccessfulUpdateDurations = 0 /\ SuccessfulUpdatesFromFirstSeen = 0
        /\ InstallSucceeded =>
              /\ install_result = "Ok"
              /\ SuccessfulUpdateDurations =
                    (IF update_finish_time >= update_start_time THEN 1 ELSE 0)
              /\ SuccessfulUpdatesFromFirstSeen =
                    (IF update_finish_time >= update_first_seen_time THEN 1 ELSE 0)
        /\ (AttemptDone /\ install_result = "Err") =>
              /\ result = OkResult("InstallPlanExecutionError")
              /\ SuccessfulUpdateDurations = 0
              /\ SuccessfulUpdatesFromFirstSeen = 0

\* The clock went backwards during a successful install of a plan first seen
\* in the previous attempt.
C13_Witness ==
    /\ AttemptDone
    /\ InstallSucceeded
    /\ update_finish_time < update_start_time
    /\ update_finish_time >= update_first_seen_time
    /\ SuccessfulUpdateDurations = 0
    /\ SuccessfulUpdatesFromFirstSeen = 1

\* The step in which report_check_interval runs.
CheckIntervalStep == pc = "report_check_interval" /\ pc' = "do_omaha_request"

IsCheckIntervalMetric(x) == IsMetric(x, "UpdateCheckInterval")

IsLastCheckTimeCommit(x) ==
    x.k = "storage" /\ x.e = "commit" /\ x.v = "last_check_time"

IsCheckingForUpdates(x) == IsStateChangeTo(x, "CheckingForUpdates")

\* The entries a step has appended to the log.
Appended == SubSeq(log', Len(log) + 1, Len(log'))

\* report_check_interval writes last_check_time, commits, and reports the
\* interval only for a previous value that is not later than now; no other
\* step writes last_check_time, and an attempt runs that step once when it
\* has passed the gate and never otherwise.
CheckIntervalContract ==
    /\ [][ /\ CheckIntervalStep =>
                /\ storage'.last_check_time # None
                /\ \E now \in env.clock :
                      storage'.last_check_time = Some(now \div TicksPerMicro)
                /\ IsLastCheckTimeCommit(Last(log'))
                /\ Len(SelectSeq(Appended, IsCheckIntervalMetric)) =
                      (IF /\ storage.last_check_time # None
                          /\ storage.last_check_time[1] <=
                                storage'.last_check_time[1]
                       THEN 1 ELSE 0)
           /\ storage'.last_check_time # storage.last_check_time =>
                CheckIntervalStep
           /\ ~CheckIntervalStep =>
                Len(SelectSeq(Appended, IsCheckIntervalMetric)) = 0 ]_vars
    /\ [](AttemptDone =>
            /\ Len(SelectSeq(log, IsLastCheckTimeCommit)) =
                  Len(SelectSeq(log, IsCheckingForUpdates))
            /\ Len(SelectSeq(log, IsCheckingForUpdates)) =
                  (IF result.kind = "Err" /\ result.v = "Policy" THEN 0 ELSE 1))

IsPipelineEvent(x) ==
    /\ x.k = "event"
    /\ \/ x.e = "StateChange" /\ x.v # "Idle"
       \/ x.e \in {"OmahaServerResponse", "InstallProgressChange"}

IsTripletEvent(x) ==
    /\ x.k = "event"
    /\ x.e \in {"ScheduleChange", "ProtocolStateChange", "UpdateCheckResult"}

\* C15: the events of an attempt are, in order: StateChanges to a state other
\* than Idle with OmahaServerResponse and InstallProgressChange among them,
\* then ScheduleChange, ProtocolStateChange and UpdateCheckResult one after
\* the other, then StateChange(Idle) as the last event.
C15_EventOrder ==
    (InAttempt \/ AttemptDone) =>
        LET n == Len(Events)
        IN  /\ \A i \in 1..n :
                  \/ IsPipelineEvent(Events[i])
                  \/ IsTripletEvent(Events[i])
                  \/ IsIdleChange(Events[i])
            /\ \A i \in 1..n :
                  Events[i].e = "ScheduleChange" =>
                      /\ \A j \in 1..(i - 1) : IsPipelineEvent(Events[j])
                      /\ i + 2 <= n
                      /\ Events[i + 1].e = "ProtocolStateChange"
                      /\ Events[i + 2].e = "UpdateCheckResult"
            /\ \A i \in 1..n :
                  Events[i].e \in {"ProtocolStateChange", "UpdateCheckResult"} =>
                      \E j \in 1..(i - 1) : Events[j].e = "ScheduleChange"
            /\ \A i \in 1..n :
                  IsIdleChange(Events[i]) =>
                      /\ i = n
                      /\ i > 3
                      /\ Events[i - 1].e = "UpdateCheckResult"
            /\ Len(SelectSeq(Events, IsTripletEvent)) \in {0, 3}
            /\ AttemptDone =>
                  /\ n >= 4
                  /\ IsIdleChange(Events[n])
                  /\ Events[n - 3].e = "ScheduleChange"

C15_Witness ==
    /\ AttemptDone
    /\ result = OkResult("Updated")
    /\ Len(Events) = 9
    /\ Events[4].e = "InstallProgressChange"
    /\ Events[5].e = "StateChange"
    /\ Events[6].e = "ScheduleChange"
    /\ Events[7].e = "ProtocolStateChange"
    /\ Events[8].e = "UpdateCheckResult"
    /\ IsIdleChange(Events[9])

StateChangeEvents == SelectSeq(log, IsStateChange)

\* The states announced so far in this attempt, after the state the machine
\* was in when the attempt was created (Idle: see StateIsIdleBetweenAttempts).
StateChangeSeq ==
    << "Idle" >> \o [i \in 1..Len(StateChangeEvents) |-> StateChangeEvents[i].v]

\* Outside an attempt, and when one is created, the state is Idle; inside an
\* attempt it is the state announced last.
StateIsIdleBetweenAttempts ==
    /\ pc \in {"run", "exited", "loop", "select", "update_check_allowed"} =>
          state = "Idle"
    /\ (InAttempt \/ AttemptDone) => state = Last(StateChangeSeq)

\* The transitions the claim lists.
ValidTransitions ==
    { << "Idle", "CheckingForUpdates" >>,
      << "CheckingForUpdates", "ErrorCheckingForUpdate" >>,
      << "CheckingForUpdates", "NoUpdateAvailable" >>,
      << "CheckingForUpdates", "InstallingUpdate" >>,
      << "CheckingForUpdates", "InstallationDeferredByPolicy" >>,
      << "InstallingUpdate", "WaitingForReboot" >>,
      << "InstallingUpdate", "InstallationError" >> }
    \cup { << s, "Idle" >> : s \in States \ {"Idle"} }

\* C16 as claimed: every pair of consecutive StateChange events, from the
\* initial state Idle on, is one of the listed transitions.
C16_ValidTransitionsOnly ==
    /\ StateIsIdleBetweenAttempts
    /\ (InAttempt \/ AttemptDone) =>
          \A i \in 1..(Len(StateChangeSeq) - 1) :
              << StateChangeSeq[i], StateChangeSeq[i + 1] >> \in ValidTransitions

\* C16 amended: every pair of consecutive StateChange events, from the
\* initial state Idle on, is one of the listed transitions or Idle to Idle,
\* and Idle to Idle occurs exactly in the attempts that update_check_allowed
\* refuses, whose only StateChange is the final Idle.
C16_ValidTransitions ==
    /\ StateIsIdleBetweenAttempts
    /\ (InAttempt \/ AttemptDone) =>
          /\ \A i \in 1..(Len(StateChangeSeq) - 1) :
                \/ << StateChangeSeq[i], StateChangeSeq[i + 1] >> \in ValidTransitions
                \/ /\ StateChangeSeq = << "Idle", "Idle" >>
                   /\ result.kind = "Err"
                   /\ result.v = "Policy"
          /\ (AttemptDone /\ result.kind = "Err" /\ result.v = "Policy") =>
                StateChangeSeq = << "Idle", "Idle" >>

C16_Witness ==
    /\ AttemptDone
    /\ attempts = 2
    /\ result = ErrResult("Policy", "TooSoon")
    /\ StateChangeSeq = << "Idle", "Idle" >>


\* The states announced in this attempt.
AttemptStateChanges ==
    [i \in 1..Len(StateChangeEvents) |-> StateChangeEvents[i].v]

IsPrefix(s, t) == Len(s) <= Len(t) /\ s = SubSeq(t, 1, Len(s))

\* The response has been parsed (or has failed to parse) in this attempt.
ResponseHandled ==
    /\ InAttempt \/ AttemptDone
    /\ pc \notin {"update_check_allowed", "report_check_interval",
                  "do_omaha_request", "backoff", "parse_omaha_response"}
    /\ data # "none"

IsInstallPathCall(x) ==
    x.k = "call" /\ x.e \in {"try_create_from", "update_can_start",
                             "record_update_first_seen_time",
                             "perform_install", "reboot_allowed",
                             "perform_reboot"}

\* C17: when the check is allowed, the exchange succeeds and the response
\* parses with no app having an update, the StateChange sequence of the
\* attempt is exactly CheckingForUpdates, NoUpdateAvailable, Idle, the
\* result is Ok with the action NoUpdate, and neither try_create_from nor
\* update_can_start nor perform_install nor perform_reboot is invoked.
C17_NoUpdatePath ==
    (ResponseHandled /\ data = "noupdate") =>
        /\ result = OkResult("NoUpdate")
        /\ IsPrefix(AttemptStateChanges,
                    << "CheckingForUpdates", "NoUpdateAvailable", "Idle" >>)
        /\ Len(AttemptStateChanges) >= 2
        /\ AttemptDone =>
              AttemptStateChanges =
                  << "CheckingForUpdates", "NoUpdateAvailable", "Idle" >>
        /\ pc \in {"bookkeeping", "persist_data", "set_idle", "loop"}
        /\ \A i \in 1..Len(log) : ~IsInstallPathCall(log[i])

C17_Witness ==
    /\ AttemptDone
    /\ data = "noupdate"
    /\ AttemptStateChanges =
           << "CheckingForUpdates", "NoUpdateAvailable", "Idle" >>
    /\ result = OkResult("NoUpdate")

IsEventRequest(x) == x.k = "request" /\ x.e = "event"

Requests == SelectSeq(log, IsRequest)

EventRequests == SelectSeq(log, IsEventRequest)

ParseResponseEvent == OmahaEvent("UpdateComplete", "default", "ParseResponse")

\* C18: when the exchange succeeds and the response body does not parse,
\* the StateChange sequence of the attempt ends with ErrorCheckingForUpdate,
\* Idle; the attempt fails with ResponseParser; the last request sent is the
\* one event request of the attempt, carrying UpdateComplete with the error
\* code ParseResponse; and the result is ResponseParser whether that request
\* succeeds or fails.
C18_ParseErrorPath ==
    (ResponseHandled /\ data = "invalid") =>
        /\ result = ErrResult("ResponseParser", "Json")
        /\ IsPrefix(AttemptStateChanges,
                    << "CheckingForUpdates", "ErrorCheckingForUpdate", "Idle" >>)
        /\ Len(AttemptStateChanges) >= 2
        /\ AttemptDone =>
              AttemptStateChanges =
                  << "CheckingForUpdates", "ErrorCheckingForUpdate", "Idle" >>
        /\ Len(EventRequests) = 1
        /\ Last(Requests) = EventRequests[1]
        /\ EventRequests[1].v.event = ParseResponseEvent
        /\ EventRequests[1].v.outcome \in EventOutcomes
        /\ \A i \in 1..Len(log) : ~IsInstallPathCall(log[i])

C18_Witness ==
    /\ AttemptDone
    /\ data = "invalid"
    /\ Len(EventRequests) = 1
    /\ EventRequests[1].v.outcome = "Err"
    /\ result = ErrResult("ResponseParser", "Json")
    /\ UpdateCheckResults = << Event("UpdateCheckResult", result) >>


RefusingDecisions == {"TooSoon", "ThrottledByPolicy", "DeniedByPolicy"}

IsRefusal(x) == x.k = "call" /\ x.e = "update_check_allowed"
                /\ x.v \in RefusingDecisions

\* update_check_allowed has refused this attempt.
Refused == (InAttempt \/ AttemptDone) /\ Len(log) > 0 /\ IsRefusal(log[1])

IsCommitBeforePersist(x) == x.k = "storage" /\ x.v # "persist_data"

\* What a refused attempt has done so far.
RefusedAttemptLog ==
    Refused =>
        /\ result = ErrResult("Policy", log[1].v)
        /\ pc \in {"bookkeeping", "persist_data", "set_idle", "loop"}
        /\ Requests = << >>
        /\ data = "none"
        /\ \A i \in 1..Len(log) :
              /\ ~IsInstallPathCall(log[i])
              /\ ~IsCommitBeforePersist(log[i])
              /\ IsStateChange(log[i]) => (log[i].v = "Idle" /\ i = Len(log))
              /\ log[i].k = "event" /\ log[i].e = "ScheduleChange" =>
                    log[i].v = "unchanged"
              /\ IsFailureReasonMetric(log[i]) => log[i].v = "Internal"
        /\ AttemptDone => IsIdleChange(Last(log))
        /\ pc \in {"persist_data", "set_idle", "loop"} =>
              Len(FailureReasons) = 1

\* What the steps of a refused attempt do to the storage: the stored
\* failed-check counter becomes its value (0 when absent) plus 1 in the
\* bookkeeping, and no other key is written.
RefusedAttemptStorage ==
    (InAttempt /\ result'.kind = "Err" /\ result'.v = "Policy") =>
        storage' =
            [storage EXCEPT !.consecutive_failed_update_checks =
                IF pc = "bookkeeping" /\ pc' = "persist_data"
                THEN Some(I64Succ(UnwrapOr(storage.consecutive_failed_update_checks,
                                          I64(0))))
                ELSE storage.consecutive_failed_update_checks]

IsInstallProgressChange(x) == x.k = "event" /\ x.e = "InstallProgressChange"

ProgressEvents == SelectSeq(log, IsInstallProgressChange)

\* The ticks emitted so far in this attempt.
EmittedTicks == [i \in 1..Len(ProgressEvents) |-> ProgressEvents[i].v]

\* The ticks the installer has delivered so far: tick k is the k-th delivery.
DeliveredTicks == [i \in 1..ticks |-> i - 1]

\* The state announced last before position i of the log.
StateAnnouncedBefore(i) ==
    LET before == SelectSeq(SubSeq(log, 1, i - 1), IsStateChange)
    IN  IF before = << >> THEN "Idle" ELSE Last(before).v

\* C20: every progress tick delivered to the observer is emitted as one
\* InstallProgressChange, in delivery order, none lost or duplicated; all of
\* them lie after StateChange(InstallingUpdate) and before the next
\* StateChange; at most one tick is delivered and not yet emitted; and once
\* perform_install has returned the relay drains and ends, so that the
\* attempt goes on.
C20_ProgressRelay ==
    (InAttempt \/ AttemptDone) =>
        /\ EmittedTicks \o progress_chan = DeliveredTicks
        /\ Len(progress_chan) <= 1
        /\ \A i \in 1..Len(log) :
              IsInstallProgressChange(log[i]) =>
                  StateAnnouncedBefore(i) = "InstallingUpdate"
        /\ (pc = "perform_install" /\ install_result # "none") =>
              ENABLED (YieldProgress \/ FinishInstall)
        /\ (pc # "perform_install" /\ install_result # "none") =>
              /\ progress_chan = << >>
              /\ EmittedTicks = DeliveredTicks

C20_Witness ==
    /\ AttemptDone
    /\ install_result = "Ok"
    /\ ticks = MaxProgress
    /\ EmittedTicks = DeliveredTicks
    /\ \E i \in 1..Len(log) :
          /\ IsCall(log[i], "perform_install")
          /\ IsInstallProgressChange(log[i + 1])


\* The request of this attempt has been built from `apps` and the match on
\* the result has not yet updated the app set.
RequestBuilt ==
    pc \in {"do_omaha_request", "backoff", "parse_omaha_response",
            "try_create_from", "update_can_start", "start_install",
            "perform_install", "bookkeeping"}

\* C21: after an Ok attempt every app named in the response carries the
\* cohort and the user counting of that response (the other apps are as the
\* attempt found them), and the request of every attempt is built from the
\* app set as the attempts before have left it.
C21_CohortPropagation ==
    /\ (AttemptDone /\ result.kind = "Ok") =>
          \A id \in AppIds :
              app_set[id] =
                  IF id \in DOMAIN response_apps
                  THEN AppState(response_apps[id].cohort,
                                response_apps[id].elapsed_days)
                  ELSE apps[id]
    /\ RequestBuilt => apps = app_set

C21_Witness ==
    /\ attempts = 2
    /\ pc = "do_omaha_request"
    /\ apps = [InitAppSet EXCEPT !["app_1"] = AppState("cohort_2", 2)]
    /\ apps = app_set


IsAttemptsToSucceed(x) == IsMetric(x, "AttemptsToSucceed")

AttemptsToSucceedMetrics == SelectSeq(log, IsAttemptsToSucceed)

\* The match on the result has been made in this attempt.
ResultMatched ==
    (InAttempt \/ AttemptDone)
    /\ pc \in {"persist_data", "reboot_allowed", "perform_reboot", "set_idle",
               "loop"}

\* The stored counter counts the attempts failed since the last success and
\* is absent when there is none; AttemptsToSucceed is reported once by an Ok
\* attempt and never by a failed one.
StoredFailedChecks ==
    /\ storage.consecutive_failed_update_checks =
          IF failures_since_success = 0 THEN None
          ELSE Some(I64(failures_since_success))
    /\ (InAttempt \/ AttemptDone) =>
          Len(AttemptsToSucceedMetrics) =
              IF ResultMatched /\ result.kind = "Ok" THEN 1 ELSE 0

\* The step that matches the result: a failure stores the count plus 1, a
\* success reports the count of failures since the last success plus 1 and
\* removes the key.
ReportAttemptsStep ==
    (pc = "bookkeeping" /\ pc' = "persist_data") =>
        IF result.kind = "Ok"
        THEN /\ SelectSeq(Appended, IsAttemptsToSucceed) =
                    << Metric("AttemptsToSucceed",
                              I64(failures_since_success + 1)) >>
             /\ storage'.consecutive_failed_update_checks = None
        ELSE /\ SelectSeq(Appended, IsAttemptsToSucceed) = << >>
             /\ storage'.consecutive_failed_update_checks =
                    Some(I64Succ(UnwrapOr(storage.consecutive_failed_update_checks,
                                          I64(0))))

\* C22: over any sequence of attempts every failed attempt adds 1 to the
\* stored consecutive_failed_update_checks (absent counting as 0) and
\* reports no AttemptsToSucceed; every successful attempt reports
\* AttemptsToSucceed(n) once, n being the number of attempts failed since
\* the last success plus 1, and removes the stored key.
C22_AttemptsToSucceed ==
    /\ [](StoredFailedChecks)
    /\ [][ReportAttemptsStep]_vars

C22_Witness ==
    /\ AttemptDone
    /\ attempts = 2
    /\ result.kind = "Ok"
    /\ AttemptsToSucceedMetrics = << Metric("AttemptsToSucceed", I64(2)) >>
    /\ storage.consecutive_failed_update_checks = None


\* C23: when the app set is invalid as run starts, the state machine exits
\* with no event emitted, no call of the policy engine and no request made,
\* and every StartUpdateCheck sent through a control handle completes with
\* StateMachineGone: none is answered Started or AlreadyRunning, and none
\* stays unanswered once run has returned.
C23_InvalidAppSet ==
    ~app_set_valid =>
        /\ pc \in {"run", "exited"}
        /\ log = << >>
        /\ attempts = 0
        /\ state = "Idle"
        /\ \A i \in 1..Len(replies) : replies[i] = "StateMachineGone"
        /\ pc = "run" => replies = << >> /\ Len(control) = sent
        /\ pc = "exited" => control = << >> /\ Len(replies) = sent

C23_Witness ==
    /\ ~app_set_valid
    /\ pc = "exited"
    /\ sent = MaxRequests
    /\ Len(replies) = sent
    /\ replies[1] = "StateMachineGone"


\* The step of `run` that creates an attempt from the timer arm of select!.
TimerStartsAttempt ==
    pc = "select" /\ pc' = "update_check_allowed" /\ trigger'.arm = "timer"

\* The waits requested for the timing compute_next_update_time returned:
\* wait_for(minimum_wait) when there is one, and wait_until(time).
RequestedWaits(check_timing) ==
    (IF check_timing.minimum_wait # None
     THEN << WaitFor(check_timing.minimum_wait[1]) >>
     ELSE << >>)
    \o << WaitUntil(check_timing.time) >>

IsWait(x) == x.k = "wait"

\* C24: an attempt created by the timer arm has the default options and is
\* created only when wait_until(timing.time) has completed and, if the
\* timing has a minimum wait, wait_for(minimum_wait) has completed too; the
\* waits requested are for exactly the time and the minimum wait that
\* compute_next_update_time returned.
C24_TimerTriggered ==
    /\ [][TimerStartsAttempt =>
            /\ wait_until_done
            /\ timing.minimum_wait => wait_for_done
            /\ options' = "ScheduledTask"]_vars
    /\ [](pc = "select" =>
            /\ IsCall(log[1], "compute_next_update_time")
            /\ SelectSeq(log, IsWait) = RequestedWaits(log[1].v)
            /\ timing.minimum_wait = (log[1].v.minimum_wait # None)
            /\ wait_for_done => timing.minimum_wait)

C24_Witness ==
    /\ pc = "select"
    /\ attempts = 1
    /\ log[1].v = [time |-> MaxClock, minimum_wait |-> Some(1)]
    /\ wait_for_done
    /\ wait_until_done
    /\ ENABLED SelectTimer


\* A call of collaborator f that answered v is in the log of this attempt.
HasCall(f, v) == \E i \in 1..Len(log) : IsCall(log[i], f) /\ log[i].v = v

HasCallOf(f) == \E i \in 1..Len(log) : IsCall(log[i], f)

\* The events of the event requests sent so far in this attempt.
SentEvents == [i \in 1..Len(EventRequests) |-> EventRequests[i].v.event]

\* The StateChange events of this attempt are those of `path`, as far as the
\* attempt has come, and all of them once it is done.
FollowsPath(path) ==
    /\ IsPrefix(AttemptStateChanges, path)
    /\ AttemptDone => AttemptStateChanges = path

\* C25: when update_can_start returns DeferredByPolicy the attempt sends one
\* event request, UpdateComplete with the result UpdateDeferred, goes from
\* CheckingForUpdates to InstallationDeferredByPolicy and never through
\* InstallingUpdate, invokes neither perform_install nor perform_reboot and
\* completes Ok with the action DeferredByPolicy.
C25_DeferredByPolicy ==
    ((InAttempt \/ AttemptDone)
        /\ HasCall("update_can_start", "DeferredByPolicy")) =>
        /\ SentEvents = << OmahaEvent("UpdateComplete", "UpdateDeferred", "none") >>
        /\ FollowsPath(<< "CheckingForUpdates", "InstallationDeferredByPolicy",
                          "Idle" >>)
        /\ Len(AttemptStateChanges) >= 2
        /\ result = OkResult("DeferredByPolicy")
        /\ ~HasCallOf("perform_install")
        /\ ~HasCallOf("perform_reboot")
        /\ pc \in {"bookkeeping", "persist_data", "set_idle", "loop"}

C25_Witness ==
    /\ AttemptDone
    /\ HasCall("update_can_start", "DeferredByPolicy")
    /\ result = OkResult("DeferredByPolicy")
    /\ EventRequests[1].v.outcome = "Err"
    /\ AttemptStateChanges =
          << "CheckingForUpdates", "InstallationDeferredByPolicy", "Idle" >>


\* C26: when update_can_start returns DeniedByPolicy the attempt emits
\* StateChange(InstallingUpdate) and then StateChange(InstallationError), sends
\* one event request, UpdateComplete with the error code DeniedByPolicy,
\* invokes neither perform_install nor perform_reboot and completes Ok with
\* the action DeniedByPolicy.
C26_DeniedByPolicy ==
    ((InAttempt \/ AttemptDone)
        /\ HasCall("update_can_start", "DeniedByPolicy")) =>
        /\ SentEvents = << OmahaEvent("UpdateComplete", "default", "DeniedByPolicy") >>
        /\ FollowsPath(<< "CheckingForUpdates", "InstallingUpdate",
                          "InstallationError", "Idle" >>)
        /\ Len(AttemptStateChanges) >= 3
        /\ result = OkResult("DeniedByPolicy")
        /\ ~HasCallOf("perform_install")
        /\ ~HasCallOf("perform_reboot")
        /\ pc \in {"bookkeeping", "persist_data", "set_idle", "loop"}

C26_Witness ==
    /\ AttemptDone
    /\ HasCall("update_can_start", "DeniedByPolicy")
    /\ result = OkResult("DeniedByPolicy")
    /\ EventRequests[1].v.outcome = "Err"
    /\ AttemptStateChanges =
          << "CheckingForUpdates", "InstallingUpdate", "InstallationError", "Idle" >>


IsScheduleChange(x) == x.k = "event" /\ x.e = "ScheduleChange"

\* The values of schedule.last_update_time announced by this attempt.
ScheduleChanges == SelectSeq(log, IsScheduleChange)

\* C27: when an app has an update but no install plan can be constructed,
\* the attempt emits StateChange(InstallingUpdate) then
\* StateChange(InstallationError), sends one event request, with the error
\* code ConstructInstallPlan, calls neither update_can_start nor
\* perform_install, and fails with InstallPlan, which counts as the server
\* having been reached: last_update_time is set to now and the failure
\* reason is Omaha.
C27_ConstructInstallPlan ==
    ((InAttempt \/ AttemptDone) /\ HasCall("try_create_from", "Err")) =>
        /\ SentEvents =
              << OmahaEvent("UpdateComplete", "default", "ConstructInstallPlan") >>
        /\ FollowsPath(<< "CheckingForUpdates", "InstallingUpdate",
                          "InstallationError", "Idle" >>)
        /\ Len(AttemptStateChanges) >= 3
        /\ result = ErrResult("InstallPlan", "")
        /\ ~HasCallOf("update_can_start")
        /\ ~HasCallOf("perform_install")
        /\ pc \in {"bookkeeping", "persist_data", "set_idle", "loop"}
        /\ pc # "bookkeeping" =>
              /\ Len(ScheduleChanges) = 1
              /\ ScheduleChanges[1].v = "now"
              /\ Len(FailureReasons) = 1
              /\ FailureReasons[1].v = "Omaha"

C27_Witness ==
    /\ AttemptDone
    /\ HasCall("try_create_from", "Err")
    /\ result = ErrResult("InstallPlan", "")
    /\ Len(ScheduleChanges) = 1
    /\ ScheduleChanges[1].v = "now"
    /\ EventRequests[1].v.outcome = "Err"
    /\ AttemptStateChanges =
          << "CheckingForUpdates", "InstallingUpdate", "InstallationError", "Idle" >>


IsSuccessReport(x) ==
    /\ IsEventRequest(x)
    /\ \/ x.v.event.event_type = "UpdateDownloadFinished"
       \/ /\ x.v.event.event_type = "UpdateComplete"
          /\ x.v.event.event_result = "Success"

\* C28: when perform_install fails the attempt emits
\* StateChange(InstallationError) after InstallingUpdate and never
\* WaitingForReboot, its last request is an event request with the error code
\* Installation, it sends neither UpdateDownloadFinished nor a successful
\* UpdateComplete, and it completes Ok with the action
\* InstallPlanExecutionError.
C28_InstallationError ==
    ((InAttempt \/ AttemptDone) /\ HasCall("perform_install", "Err")) =>
        /\ FollowsPath(<< "CheckingForUpdates", "InstallingUpdate",
                          "InstallationError", "Idle" >>)
        /\ \A i \in 1..Len(log) : ~IsSuccessReport(log[i])
        /\ ~HasCallOf("reboot_allowed")
        /\ ~HasCallOf("perform_reboot")
        /\ pc \in {"perform_install", "bookkeeping", "persist_data",
                   "set_idle", "loop"}
        /\ pc # "perform_install" =>
              /\ Len(AttemptStateChanges) >= 3
              /\ IsEventRequest(Requests[Len(Requests)])
              /\ Requests[Len(Requests)].v.event =
                    OmahaEvent("UpdateComplete", "default", "Installation")
              /\ result = OkResult("InstallPlanExecutionError")

C28_Witness ==
    /\ AttemptDone
    /\ HasCall("perform_install", "Err")
    /\ result = OkResult("InstallPlanExecutionError")
    /\ Requests[Len(Requests)].v.outcome = "Err"
    /\ AttemptStateChanges =
          << "CheckingForUpdates", "InstallingUpdate", "InstallationError", "Idle" >>


\* The positions of an attempt that update_check_allowed has let through.
PastPolicyGate == (InAttempt /\ pc # "update_check_allowed") \/ AttemptDone

\* C29: with StubPolicyEngine, compute_next_update_time returns the time its
\* time source reads, with no minimum wait; update_check_allowed returns Ok
\* with the source of the check options and use_configured_proxies true;
\* update_can_start returns Ok; so no attempt fails with a Policy error and
\* the state is never InstallationDeferredByPolicy.
C29_StubPolicy ==
    /\ pc = "select" =>
          /\ IsCall(log[1], "use_timesource")
          /\ IsCall(log[2], "compute_next_update_time")
          /\ log[2].v = [time |-> log[1].v, minimum_wait |-> None]
          /\ ~timing.minimum_wait
    /\ PastPolicyGate =>
          /\ HasCall("update_check_allowed", "positive")
          /\ request_params = RequestParams(options, TRUE)
          /\ options \in InstallSources
    /\ \A i \in 1..Len(log) :
          IsCall(log[i], "update_can_start") => log[i].v = "Ok"
    /\ result.kind = "Err" => result.v # "Policy"
    /\ state # "InstallationDeferredByPolicy"
    /\ \A i \in 1..Len(log) :
          ~IsStateChangeTo(log[i], "InstallationDeferredByPolicy")

\* An on-demand check under the stub policy that went on to install.
C29_Witness ==
    /\ AttemptDone
    /\ options = "OnDemand"
    /\ request_params = RequestParams("OnDemand", TRUE)
    /\ HasCall("update_can_start", "Ok")
    /\ HasCall("perform_install", "Ok")


IsCommit(x) == x.k = "storage" /\ x.e = "commit"

\* What each storage.commit() of this attempt was for, in order.
CommitPoints ==
    LET commits == SelectSeq(log, IsCommit)
    IN  [i \in 1..Len(commits) |-> commits[i].v]

\* Where in the attempt each commit is made: the one for last_check_time
\* after StateChange(CheckingForUpdates) with nothing but the
\* UpdateCheckInterval metric in between, the one of
\* record_update_first_seen_time inside that call and before perform_install,
\* the one of persist_data right after the UpdateCheckResult event.
CommitPlaces ==
    \A i \in 1..Len(log) :
        IsCommit(log[i]) =>
            CASE log[i].v = "last_check_time" ->
                    \E j \in 1..(i - 1) :
                        /\ IsCheckingForUpdates(log[j])
                        /\ \A m \in (j + 1)..(i - 1) :
                              IsCheckIntervalMetric(log[m])
              [] log[i].v = "update_first_seen_time" ->
                    /\ IsCall(log[i - 1], "record_update_first_seen_time")
                    /\ \A j \in 1..i : ~IsCall(log[j], "perform_install")
              [] log[i].v = "persist_data" ->
                    /\ log[i - 1].k = "event"
                    /\ log[i - 1].e = "UpdateCheckResult"

\* The commits of an attempt, as far as it has come: one for
\* last_check_time unless the policy refused the check, then at most one in
\* record_update_first_seen_time, then the one of persist_data.
CommitOrder ==
    (InAttempt \/ AttemptDone) =>
        /\ \/ IsPrefix(CommitPoints, << "last_check_time",
                                        "update_first_seen_time",
                                        "persist_data" >>)
           \/ IsPrefix(CommitPoints, << "last_check_time", "persist_data" >>)
           \/ Refused /\ IsPrefix(CommitPoints, << "persist_data" >>)
        /\ CommitPlaces
        /\ (\E i \in 1..Len(log) : IsCheckingForUpdates(log[i])) =>
              /\ ~Refused
              /\ pc # "report_check_interval" =>
                    (CommitPoints # << >> /\ CommitPoints[1] = "last_check_time")
        /\ AttemptDone => Last(CommitPoints) = "persist_data"

\* record_update_first_seen_time commits exactly when the plan's id is not the
\* stored install_plan_id.
FirstSeenCommit ==
    FirstSeenCall =>
        Len(CommitPoints') =
            Len(CommitPoints) +
                (IF storage.install_plan_id = Some(install_plan') THEN 0 ELSE 1)

Owned == <<context, schedule, server_dictated_poll_interval, app_set>>

\* The step in which start_update_check matches on the result.
ResultMatchStep == pc = "bookkeeping" /\ pc' = "persist_data"

\* What the match on an Err result does to the context and the app set.
ErrFrame ==
    (ResultMatchStep /\ result.kind = "Err") =>
        /\ app_set' = app_set
        /\ server_dictated_poll_interval' = server_dictated_poll_interval
        /\ context'.consecutive_failed_update_attempts =
              context.consecutive_failed_update_attempts
        /\ schedule'.next_update_time = schedule.next_update_time
        /\ IF result.v \in {"ResponseParser", "InstallPlan"}
           THEN schedule'.last_update_time \in {Some(now) : now \in env.update_clock}
           ELSE schedule'.last_update_time = schedule.last_update_time

\* No other step of an attempt touches the context or the app set.
AttemptFrame == (InAttempt /\ ~ResultMatchStep) => UNCHANGED Owned

\* C31: an Err attempt changes nothing in the context and the app set except
\* consecutive_failed_update_checks and, when the error is ResponseParser or
\* InstallPlan, schedule.last_update_time, which becomes now; Policy and
\* OmahaRequest failures leave last_update_time as it was, and no failure
\* changes the apps' cohort and user counting,
\* consecutive_failed_update_attempts or server_dictated_poll_interval.
C31_ErrFrame == [][ErrFrame /\ AttemptFrame]_vars

\* A failed attempt whose response named other cohorts: last_update_time has
\* moved, the loaded poll interval and the apps have not.
C31_Witness ==
    /\ AttemptDone
    /\ result = ErrResult("InstallPlan", "")
    /\ response_apps = MovedApps
    /\ app_set = InitAppSet
    /\ schedule.last_update_time = Some(MaxClock)
    /\ server_dictated_poll_interval = Some("poll")


\* The step in which update_next_update_time runs.
NextUpdateTimeStep == pc = "loop" /\ pc' = "select"

\* The ScheduleChange of update_next_update_time carries the time of the
\* CheckTiming the policy engine has just returned and the last_update_time
\* as it was.
ScheduleAtStart ==
    NextUpdateTimeStep =>
        /\ Len(ScheduleChanges') = 1
        /\ schedule'.last_update_time = schedule.last_update_time
        /\ \E i \in 1..Len(log') :
              /\ IsCall(log'[i], "compute_next_update_time")
              /\ schedule'.next_update_time = Some(log'[i].v.time)

\* The ScheduleChange at the end of an attempt carries the next_update_time
\* computed before the attempt and, when the result sets it, the reading of
\* the time source as last_update_time.
ScheduleAtEnd ==
    ResultMatchStep =>
        /\ Len(ScheduleChanges') = Len(ScheduleChanges) + 1
        /\ schedule'.next_update_time = schedule.next_update_time
        /\ IF SetsLastUpdateTime(result)
           THEN schedule'.last_update_time \in
                   {Some(now) : now \in env.update_clock}
           ELSE schedule'.last_update_time = schedule.last_update_time

\* Between these two steps the schedule does not change and no ScheduleChange
\* is emitted.
ScheduleElsewhere ==
    ~(NextUpdateTimeStep \/ ResultMatchStep) =>
        /\ UNCHANGED schedule
        /\ Len(ScheduleChanges') <= Len(ScheduleChanges)

\* C32 (as stated): in every ScheduleChange event with both fields present
\* next_update_time.time is not earlier than last_update_time.
C32_ScheduleOrdered ==
    (/\ ScheduleChanges # << >>
     /\ schedule.last_update_time # None
     /\ schedule.next_update_time # None) =>
        schedule.next_update_time[1] >= schedule.last_update_time[1]

\* C32: every ScheduleChange event carries, as last_update_time, the reading
\* of the clock when an attempt last wrote it and, as next_update_time, the
\* time the policy engine returned at the start of the iteration; the event
\* at the end of an attempt therefore carries the next_update_time computed
\* before the attempt.
C32_ScheduleWrites ==
    [][ScheduleAtStart /\ ScheduleAtEnd /\ ScheduleElsewhere]_vars

\* The ScheduleChange at the end of an attempt with a last_update_time later
\* than the next_update_time it carries.
C32_Witness ==
    /\ AttemptDone
    /\ result.kind = "Ok"
    /\ Len(ScheduleChanges) = 1
    /\ schedule.next_update_time = Some(1)
    /\ schedule.last_update_time = Some(MaxClock)


\* C33: after an Ok attempt consecutive_failed_update_attempts is its value
\* before the attempt plus 1 if the Action is InstallPlanExecutionError and 0
\* otherwise; an Err attempt leaves it as it was.
C33_FailedAttemptsCounter ==
    AttemptDone =>
        context.consecutive_failed_update_attempts =
            IF result.kind = "Ok"
            THEN IF result.v = "InstallPlanExecutionError"
                 THEN MathSucc(prev_context.consecutive_failed_update_attempts)
                 ELSE U32(0)
            ELSE prev_context.consecutive_failed_update_attempts


\* The scheduler loop has computed the next check timing and emitted the
\* ScheduleChange that carries it.
ScheduledAgain ==
    /\ pc = "select"
    /\ schedule.next_update_time # None
    /\ HasCallOf("compute_next_update_time")
    /\ Len(ScheduleChanges) = 1

\* An attempt's return does not end the task.
LoopSurvives == pc \in AttemptPcs => pc' # "exited"

\* C34: when every call returns and reboot_allowed answers true at some
\* time, every started attempt completes, the loop then computes the next
\* check timing and emits a ScheduleChange with next_update_time set, and no
\* outcome of an attempt ends the loop.
C34_Termination ==
    /\ InAttempt ~> AttemptDone
    /\ (AttemptDone /\ attempts < MaxAttempts) ~> ScheduledAgain
    /\ [][LoopSurvives]_vars

\* The loop has scheduled the next check after an attempt that failed, and
\* after one that waited at the reboot gate.
C34_Witness ==
    /\ ScheduledAgain
    /\ attempts > 0
    /\ \/ result.kind = "Err"
       \/ reboot_polls > 0


\* The attempt is in its reboot-permission wait: the update is installed and
\* reboot_allowed last answered false.
InRebootWait ==
    /\ pc = "reboot_allowed"
    /\ state = "WaitingForReboot"
    /\ reboot_polls > 0
    /\ Last(log) = WaitFor(RebootWaitMs)

\* A request answered during the wait is answered AlreadyRunning and changes
\* nothing of the attempt: no attempt is created, no call is made, and the
\* wait goes on.
RequestInRebootWait ==
    (InRebootWait /\ replies' # replies) =>
        /\ replies' = Append(replies, "AlreadyRunning")
        /\ control' = Tail(control)
        /\ InRebootWait'
        /\ UNCHANGED <<attempts, options, trigger, log, reboot_polls,
                       request_params, context, storage>>

\* The wait ends only with reboot_allowed answering true.
RebootWaitEnds ==
    (InRebootWait /\ ~InRebootWait') =>
        /\ pc' = "perform_reboot"
        /\ log' = Append(log, Call("reboot_allowed", "true"))
        /\ UNCHANGED <<attempts, replies, control>>

\* C35: during the reboot-permission wait of an attempt StartUpdateCheck
\* requests are answered AlreadyRunning and start no attempt, no
\* update_check_allowed query and no HTTP exchange, and do not end the wait;
\* the wait ends only when reboot_allowed answers true.
C35_RebootWait == [][RequestInRebootWait /\ RebootWaitEnds]_vars

\* A request has been answered AlreadyRunning during the reboot wait, which
\* goes on.
C35_Witness ==
    /\ InRebootWait
    /\ replies = << "AlreadyRunning" >>
    /\ sent = 1
    /\ \E i \in 1..Len(log) : IsCall(log[i], "reboot_allowed")


IsPersistCommit(x) == IsCommit(x) /\ x.v = "persist_data"

\* What follows the commit of persist_data in start_update_check.
IsAfterPersist(x) ==
    \/ IsCall(x, "reboot_allowed")
    \/ IsCall(x, "perform_reboot")
    \/ IsIdleChange(x)

\* C36: the commit of persist_data is made after the UpdateCheckResult event
\* has been handed to the consumer and before reboot_allowed is first
\* queried, before perform_reboot and before StateChange(Idle).
C36_PersistOrder ==
    (InAttempt \/ AttemptDone) =>
        /\ Len(SelectSeq(log, IsPersistCommit)) <= 1
        /\ \A i \in 1..Len(log) :
              /\ IsPersistCommit(log[i]) =>
                    /\ \E j \in 1..(i - 1) : IsUpdateCheckResult(log[j])
                    /\ \A j \in 1..i : ~IsAfterPersist(log[j])
              /\ IsAfterPersist(log[i]) =>
                    \E j \in 1..(i - 1) : IsPersistCommit(log[j])
        /\ pc \in {"reboot_allowed", "perform_reboot", "set_idle", "loop"} =>
              \E i \in 1..Len(log) : IsPersistCommit(log[i])

\* An attempt that waited at the reboot gate, rebooted and went Idle, all
\* after the commit.
C36_Witness ==
    /\ AttemptDone
    /\ HasCall("reboot_allowed", "false")
    /\ HasCall("reboot_allowed", "true")
    /\ HasCallOf("perform_reboot")
    /\ IsIdleChange(Last(log))
    /\ \E i \in 1..Len(log) : IsPersistCommit(log[i])


\* C37: after an Ok attempt server_dictated_poll_interval is the value
\* carried by the Response of the result, which make_response always leaves
\* absent: every Ok attempt leaves the interval absent, whatever was held
\* or loaded from storage before.
C37_PollIntervalCleared ==
    /\ (ResultMatched /\ result.kind = "Ok") =>
          /\ server_dictated_poll_interval = MadePollInterval
          /\ server_dictated_poll_interval = None
    /\ (pc = "bookkeeping" /\ attempts = 1) =>
          server_dictated_poll_interval =
              env.loaded.server_dictated_poll_interval

\* An Ok attempt of a machine that had loaded an interval from storage.
C37_Witness ==
    /\ AttemptDone
    /\ attempts = 1
    /\ result.kind = "Ok"
    /\ env.loaded.server_dictated_poll_interval = Some("poll")
    /\ server_dictated_poll_interval = None


\* The loop takes a request from the control channel.
Dequeues == control # << >> /\ control' = Tail(control)

\* The loop creates an attempt.
StartsAttempt == attempts' # attempts

\* Every request the loop takes is answered once, Started by the outer
\* select! and AlreadyRunning by the inner one, and nothing else is answered.
OneReplyPerRequest ==
    /\ Dequeues =>
          /\ pc \in {"select"} \cup AttemptPcs
          /\ replies' = Append(replies,
                               IF pc = "select" THEN "Started"
                               ELSE "AlreadyRunning")
    /\ replies' # replies => Dequeues

\* An attempt is created only by the outer select!, by the timer with the
\* default options and no request taken, or by one request with its options;
\* a Started reply always creates one, and the options stay for the attempt.
OneAttemptPerIteration ==
    /\ StartsAttempt =>
          /\ pc = "select"
          /\ pc' = "update_check_allowed"
          /\ attempts' = attempts + 1
          /\ IF trigger'.arm = "request"
             THEN /\ Dequeues
                  /\ Len(control') = Len(control) - 1
                  /\ options' = Head(control)
                  /\ replies' = Append(replies, "Started")
             ELSE /\ trigger'.arm = "timer"
                  /\ options' = DefaultCheckOptions
                  /\ UNCHANGED <<control, replies>>
    /\ (replies' # replies /\ Last(replies') = "Started") => StartsAttempt
    /\ pc \in AttemptPcs => (options' = options /\ pc' \in AttemptPcs \cup {"loop"})
    /\ pc = "loop" => pc' \in {"loop", "select"}
    /\ pc = "select" => (pc' = "select" \/ StartsAttempt)

\* C38: every StartUpdateCheck the running loop takes gets exactly one reply,
\* Started or AlreadyRunning; a Started reply goes with exactly one attempt
\* that uses the request's options; every iteration of the loop drives one
\* attempt, created by the timer or by one request and never by both; and a
\* request left in the channel when an attempt completes is answered Started
\* by the next select! and starts an attempt.
C38_RequestsAndAttempts ==
    /\ [][OneReplyPerRequest /\ OneAttemptPerIteration]_vars
    /\ [](pc # "exited" => Len(control) + Len(replies) = sent)
    /\ []((pc = "select" /\ control # << >>) => ENABLED SelectControl)
    /\ []((pc = "loop" /\ control # << >> /\ attempts < MaxAttempts) =>
            ENABLED UpdateNextUpdateTime)

\* A request sent during the first attempt and not taken by it has started
\* the second attempt, with its options.
C38_Witness ==
    /\ attempts = 2
    /\ pc \in AttemptPcs
    /\ trigger.arm = "request"
    /\ options = "OnDemand"
    /\ replies = << "Started" >>
    /\ sent = 1


\* With every handle dropped the control channel is closed and empty: no
\* arm of a select! completes for it and nothing can be sent.
ChannelClosed ==
    handles_dropped =>
        /\ control = << >>
        /\ ~ENABLED SelectControl
        /\ ~ENABLED ControlDuringCheck
        /\ ~ENABLED SendStartUpdateCheck

\* With every handle dropped the loop is not blocked: while it waits a timer
\* can complete or the timer arm can fire, during an attempt the attempt can
\* take its next step, and after it the next timing can be computed.
LoopNotBlocked ==
    (handles_dropped /\ pc # "exited") =>
        CASE pc = "select" ->
                ENABLED (WaitForCompletes \/ WaitUntilCompletes \/ SelectTimer)
          [] pc = "loop" ->
                attempts < MaxAttempts => ENABLED UpdateNextUpdateTime
          [] OTHER -> ENABLED NextUnattended

\* With every handle dropped attempts are created by the timer arm only, the
\* task does not return, and no reply is made.
DroppedStep ==
    handles_dropped =>
        /\ handles_dropped'
        /\ StartsAttempt =>
              /\ trigger'.arm = "timer"
              /\ trigger'.wait_ready
              /\ options' = DefaultCheckOptions
        /\ pc # "run" => pc' # "exited"
        /\ UNCHANGED <<control, replies, sent>>

\* C39: when every ControlHandle is dropped while the machine runs the loop
\* keeps running: attempts go on being created by the timer, and the closed
\* control channel neither creates an attempt nor ends or blocks the loop,
\* whether it waits or drives an attempt.
C39_HandlesDropped ==
    /\ [](ChannelClosed /\ LoopNotBlocked)
    /\ [][DroppedStep]_vars

\* A handle had a request answered during the first attempt, every handle
\* was dropped, and the timer has created the next attempt.
C39_Witness ==
    /\ handles_dropped
    /\ pc = "update_check_allowed"
    /\ attempts = MaxAttempts
    /\ trigger = [arm |-> "timer", wait_ready |-> TRUE]
    /\ replies = << "AlreadyRunning" >>


\* C40: in a run that started with the stored consecutive_failed_update_checks
\* absent and the counter in memory 0, after every attempt the stored value
\* (absent counting as 0) equals the counter in memory: both are 0 after an
\* Ok attempt, both are the number of consecutive failed attempts after a
\* failed one.
C40_StoredEqualsMemory ==
    AttemptDone =>
        /\ UnwrapOr(storage.consecutive_failed_update_checks, I64(0)) =
              context.consecutive_failed_update_checks
        /\ result.kind = "Ok" =>
              /\ storage.consecutive_failed_update_checks = None
              /\ context.consecutive_failed_update_checks = U32(0)

====
